---- MODULE Spec2Model ----
(***************************************************************************)
(* A model of the pcapng-writer crate: the option encoders, the five block *)
(* encoders and the PcapNgWriter that encodes a block into its sink in the *)
(* byte order chosen at construction.                                      *)
(*                                                                         *)
(* Bytes are the numbers 0..255 and a sink is a sequence of bytes.  u16    *)
(* and u32 values are numbers; a u64 value is its eight bytes, most        *)
(* significant first (the model's integers have 32 bits).                  *)
(***************************************************************************)
EXTENDS Integers, Sequences, FiniteSets, TLC

VARIABLES
    endianness,   \* PcapNgWriter.endianness: "Big" or "Little"
    sink,         \* PcapNgWriter.writer: the bytes the sink holds
    options,      \* the caller's Options list (Options.0), a sequence of BlockOption
    last,         \* the last write call: what was encoded, where it started, how it ended
    log,          \* the write calls made on the writer, oldest first
    room,         \* <<n>>: the sink rejects a write after n more bytes; <<>>: never
    built         \* the constructor call that built the writer

vars == <<endianness, sink, options, last, log, room, built>>

----------------------------------------------------------------------------
(* Bounds of the model *)

\* The longest option list the caller builds.
MaxOpts == 2

\* The longest packet payload, in bytes.
MaxPayload == 5

\* The most write calls made on one writer when a stream of blocks is written.
MaxWrites == 4

----------------------------------------------------------------------------
(* Byte-level helpers: byteorder's write_u16 / write_u32 / write_u64 *)

Zeros(n) == [i \in 1..n |-> 0]

Reverse(s) == [i \in 1..Len(s) |-> s[Len(s) + 1 - i]]

\* The bytes of s from offset off (0-based), n of them; shorter at the end of s.
Slice(s, off, n) == SubSeq(s, off + 1, IF off + n <= Len(s) THEN off + n ELSE Len(s))

U16BE(v) == <<(v \div 256) % 256, v % 256>>

U32BE(v) == <<(v \div 16777216) % 256, (v \div 65536) % 256, (v \div 256) % 256, v % 256>>

write_u16(v, B) == IF B = "Big" THEN U16BE(v) ELSE Reverse(U16BE(v))

write_u32(v, B) == IF B = "Big" THEN U32BE(v) ELSE Reverse(U32BE(v))

\* v is the eight bytes of the u64, most significant first.
write_u64(v, B) == IF B = "Big" THEN v ELSE Reverse(v)

(* A u32 or u128 whose value does not fit the model's integers is the        *)
(* sequence of its bits, most significant first.                             *)

\* The w-bit form of a number below 2^31.
Bits(v, w) == SubSeq([i \in 1..w |-> IF w - i > 30 THEN 0 ELSE (v \div 2^(w - i)) % 2], 1, w)

\* The number bits lo..hi of a bit sequence stand for, below 2^31.
RECURSIVE NatFrom(_, _, _)
NatFrom(bits, lo, hi) ==
    IF lo = hi THEN bits[lo]
    ELSE LET mid == (lo + hi) \div 2 IN
         NatFrom(bits, lo, mid) * 2^(hi - mid) + NatFrom(bits, mid + 1, hi)

Nat32(bits) == CHOOSE v \in {NatFrom(b, 1, Len(b)) : b \in {bits}} : TRUE

\* write_u32 of a u32 given by its 32 bits
write_u32_bits(v, B) ==
    LET be == <<Nat32(SubSeq(v, 1, 8)), Nat32(SubSeq(v, 9, 16)),
                Nat32(SubSeq(v, 17, 24)), Nat32(SubSeq(v, 25, 32))>>
    IN IF B = "Big" THEN be ELSE Reverse(be)

(* What a reader of the byte stream sees: the integer at an offset. *)

ReadU16(s, off, B) ==
    IF B = "Big" THEN s[off + 1] * 256 + s[off + 2]
    ELSE s[off + 2] * 256 + s[off + 1]

ReadU32(s, off, B) ==
    IF B = "Big"
    THEN s[off + 1] * 16777216 + s[off + 2] * 65536 + s[off + 3] * 256 + s[off + 4]
    ELSE s[off + 4] * 16777216 + s[off + 3] * 65536 + s[off + 2] * 256 + s[off + 1]

----------------------------------------------------------------------------
(* Program constants *)

BLOCK_COMMON_LEN == 12

BYTE_ORDER_MAGIC == 439041101       \* 0x1A2B_3C4D

SHB_UNSPECIFIED_LENGTH == <<255, 255, 255, 255, 255, 255, 255, 255>>

\* BlockType::value(), as the block format figures give it.
TYPE_SHB == 168627466               \* 0x0A0D0D0A

TYPE_IDB == 1

TYPE_SPB == 3

TYPE_ISB == 5

TYPE_EPB == 6

\* LinkType::Ethernet.value()
LINKTYPE_ETHERNET == 1

----------------------------------------------------------------------------
(* Options *)

\* utils::pad_to_32: the bytes that bring n to the next multiple of 4.
pad_to_32(n) == (4 - (n % 4)) % 4

\* The option kinds that have an encoding rule (an arm in bytes() and length()).
Implemented ==
    {"OptEndOfOpt", "OptComment", "IfName", "IfDescription", "IfIpv4Addr",
     "IfIpv6Addr", "IfMacAddr", "IfTsResol", "EpbFlags", "Raw"}

\* BlockOption::code
OptCode(o) ==
    CASE o.kind = "OptEndOfOpt" -> 0
      [] o.kind = "OptComment" -> 1
      [] o.kind = "OptCustom" -> o.code
      [] o.kind = "ShbHardware" -> 2
      [] o.kind = "ShbOs" -> 3
      [] o.kind = "ShbUserAppl" -> 4
      [] o.kind = "IfName" -> 2
      [] o.kind = "IfDescription" -> 3
      [] o.kind = "IfIpv4Addr" -> 4
      [] o.kind = "IfIpv6Addr" -> 5
      [] o.kind = "IfMacAddr" -> 6
      [] o.kind = "IfEuiAddr" -> 7
      [] o.kind = "IfSpeed" -> 8
      [] o.kind = "IfTsResol" -> 9
      [] o.kind = "IfTZone" -> 10
      [] o.kind = "IfFilter" -> 11
      [] o.kind = "IfOs" -> 12
      [] o.kind = "IfFcsLen" -> 13
      [] o.kind = "IfTsOffset" -> 14
      [] o.kind = "IfHardware" -> 15
      [] o.kind = "EpbFlags" -> 2
      [] o.kind = "EpbHash" -> 3
      [] o.kind = "EpbDropCount" -> 4

\* RawOption::bytes with code and length always written big-endian.
RawOptionBytesBigEndianHeader(r, B) == U16BE(r.code) \o U16BE(r.length) \o r.value

\* RawOption::bytes: the raw option writes its own code and length before its value.
RawOptionBytes(r, B) == write_u16(r.code, B) \o write_u16(r.length, B) \o r.value

\* BlockOption::bytes with the addresses written as numbers in the byte order:
\* each IPv4 address as a u32, the IPv6 address as a u128, the MAC as a u48.
OptBytesNumericAddresses(o, B) ==
    CASE o.kind = "OptEndOfOpt" -> <<>>
      [] o.kind = "OptComment" -> o.comment
      [] o.kind = "IfName" -> o.if_name
      [] o.kind = "IfDescription" -> o.if_description
      [] o.kind = "IfIpv4Addr" ->
            IF B = "Big" THEN o.ip \o o.netmask ELSE Reverse(o.ip) \o Reverse(o.netmask)
      [] o.kind = "IfIpv6Addr" ->
            (IF B = "Big" THEN o.ip ELSE Reverse(o.ip)) \o <<o.prefix_len>>
      [] o.kind = "IfMacAddr" -> IF B = "Big" THEN o.mac_addr ELSE Reverse(o.mac_addr)
      [] o.kind = "IfTsResol" -> <<o.tsresol>>
      [] o.kind = "EpbFlags" -> write_u32_bits(o.flags, B)
      [] o.kind = "Raw" -> RawOptionBytes(o, B)

\* BlockOption::bytes, for the kinds that have an arm (the others abort).
OptBytes(o, B) ==
    CASE o.kind = "OptEndOfOpt" -> <<>>
      [] o.kind = "OptComment" -> o.comment
      [] o.kind = "IfName" -> o.if_name
      [] o.kind = "IfDescription" -> o.if_description
      [] o.kind = "IfIpv4Addr" -> o.ip \o o.netmask
      [] o.kind = "IfIpv6Addr" -> o.ip \o <<o.prefix_len>>
      [] o.kind = "IfMacAddr" -> o.mac_addr
      [] o.kind = "IfTsResol" -> <<o.tsresol>>
      [] o.kind = "EpbFlags" -> write_u32_bits(o.flags, B)
      [] o.kind = "Raw" -> RawOptionBytes(o, B)

\* BlockOption::length, for the kinds that have an arm (the others abort).
OptLength(o) ==
    CASE o.kind = "OptEndOfOpt" -> 0
      [] o.kind = "OptComment" -> Len(o.comment)
      [] o.kind = "IfName" -> Len(o.if_name)
      [] o.kind = "IfDescription" -> Len(o.if_description)
      [] o.kind = "IfIpv4Addr" -> 4 + 4
      [] o.kind = "IfIpv6Addr" -> 16 + 1
      [] o.kind = "IfMacAddr" -> 6
      [] o.kind = "IfTsResol" -> 1
      [] o.kind = "EpbFlags" -> 4
      [] o.kind = "Raw" -> o.length

\* The text of a text option: its UTF-8 bytes.
TextKinds == {"OptComment", "IfName", "IfDescription"}

TextOf(o) ==
    CASE o.kind = "OptComment" -> o.comment
      [] o.kind = "IfName" -> o.if_name
      [] o.kind = "IfDescription" -> o.if_description

\* BlockOption::length aborts for a kind without an arm (unimplemented!()) and
\* for a text whose byte length is not a u16 (len().try_into().unwrap()).
OptLengthPanics(o) ==
    \/ o.kind \notin Implemented
    \/ o.kind \in TextKinds /\ Len(TextOf(o)) > 65535

\* BlockOption::padding
OptPadding(o) == Zeros(pad_to_32(OptLength(o)))

\* The outcome of an encode call: the bytes it appended to the sink and how it
\* ended ("Ok", or "Panic" when an unimplemented!() arm aborted the call).
Ok(bytes) == [out |-> bytes, res |-> "Ok"]

Panic(bytes) == [out |-> bytes, res |-> "Panic"]

\* OptEncode with an option that has no encoding rule left out of the output.
OptEncodeSkipUnimplemented(o, B) ==
    IF o.kind = "Raw"
    THEN Ok(OptBytes(o, B) \o OptPadding(o))
    ELSE IF ~OptLengthPanics(o)
         THEN Ok(write_u16(OptCode(o), B) \o write_u16(OptLength(o), B)
                 \o OptBytes(o, B) \o OptPadding(o))
         ELSE Ok(<<>>)

\* OptEncode with the padding counted into the length field.
OptEncodeLengthWithPadding(o, B) ==
    IF o.kind = "Raw"
    THEN Ok(OptBytes(o, B) \o OptPadding(o))
    ELSE IF o.kind \in Implemented
         THEN Ok(write_u16(OptCode(o), B)
                 \o write_u16(OptLength(o) + Len(OptPadding(o)), B)
                 \o OptBytes(o, B) \o OptPadding(o))
         ELSE Panic(write_u16(OptCode(o), B))

\* <BlockOption as Encodable>::encode
OptEncode(o, B) ==
    IF o.kind = "Raw"
    THEN Ok(OptBytes(o, B) \o OptPadding(o))
    ELSE IF ~OptLengthPanics(o)
         THEN Ok(write_u16(OptCode(o), B) \o write_u16(OptLength(o), B)
                 \o OptBytes(o, B) \o OptPadding(o))
         ELSE Panic(write_u16(OptCode(o), B))  \* length() aborts after the code is out

\* <Options as Encodable>::encode: the options in list order, stopping at the
\* first one whose encode does not return Ok.
RECURSIVE OptionsEncodeFrom(_, _, _)
OptionsEncodeFrom(opts, i, B) ==
    IF i > Len(opts) THEN Ok(<<>>)
    ELSE LET e == OptEncode(opts[i], B) IN
         IF e.res # "Ok" THEN e
         ELSE LET r == OptionsEncodeFrom(opts, i + 1, B) IN
              [out |-> e.out \o r.out, res |-> r.res]

\* OptionsEncode with an end-of-options option added after the caller's options.
OptionsEncodeTerminated(opts, B) ==
    OptionsEncodeFrom(Append(opts, [kind |-> "OptEndOfOpt"]), 1, B)

OptionsEncode(opts, B) == OptionsEncodeFrom(opts, 1, B)

\* Options::length aborts when the length() of an option of the list does.
OptionsLengthPanics(opts) == \E i \in 1..Len(opts) : OptLengthPanics(opts[i])

\* Options::length
RECURSIVE OptionsLengthFrom(_, _)
OptionsLengthFrom(opts, i) ==
    IF i > Len(opts) THEN 0
    ELSE OptLength(opts[i]) + Len(OptPadding(opts[i])) + 4 + OptionsLengthFrom(opts, i + 1)

OptionsLength(opts) == OptionsLengthFrom(opts, 1)

(* Option constructors.  A string is the sequence of its bytes (ASCII here). *)

\* OptionComment::new / OptionIfName::new / OptionIfDescription::new: the text
\* is copied as it is.
OptionCommentNew(comment) == [kind |-> "OptComment", comment |-> comment]

OptionIfNameNew(name) == [kind |-> "IfName", if_name |-> name]

OptionIfDescriptionNew(description) ==
    [kind |-> "IfDescription", if_description |-> description]

\* str::split('.'): the pieces of s between the '.' bytes (46), cur the piece
\* being read.
RECURSIVE SplitFrom(_, _, _)
SplitFrom(s, i, cur) ==
    IF i > Len(s) THEN <<cur>>
    ELSE IF s[i] = 46 THEN <<cur>> \o SplitFrom(s, i + 1, <<>>)
    ELSE SplitFrom(s, i + 1, Append(cur, s[i]))

\* The value of the decimal digits d[i..] after acc, -1 when a byte is not a
\* digit ('0' is 48) or the value leaves the u8 range.
RECURSIVE DigitsFrom(_, _, _)
DigitsFrom(d, i, acc) ==
    IF i > Len(d) THEN acc
    ELSE IF d[i] \notin 48..57 THEN -1
    ELSE IF acc * 10 + (d[i] - 48) > 255 THEN -1
    ELSE DigitsFrom(d, i + 1, acc * 10 + (d[i] - 48))

\* str::parse::<u8>: decimal digits after an optional '+' (43); -1 is Err.
ParseU8(x) ==
    LET d == IF x # <<>> /\ x[1] = 43 THEN Tail(x) ELSE x IN
    IF d = <<>> THEN -1 ELSE DigitsFrom(d, 1, 0)

\* OptionIfMacAddr::new: split on '.', parse each piece as a u8 and unwrap it,
\* then unwrap the conversion of the pieces into [u8; 6].
OptionIfMacAddrNew(mac_addr) ==
    LET pieces == SplitFrom(mac_addr, 1, <<>>)
        split == [i \in 1..Len(pieces) |-> ParseU8(pieces[i])]
    IN
    IF (\E i \in 1..Len(split) : split[i] = -1) \/ Len(split) # 6
    THEN [res |-> "Panic"]
    ELSE [value |-> [kind |-> "IfMacAddr", mac_addr |-> split], res |-> "Ok"]

----------------------------------------------------------------------------
(* Blocks.  A block holds a reference to the caller's option list; the model *)
(* keeps the list in the block's options field.                             *)

\* SectionHeaderSectionLength::value: "Unspecified", or the eight bytes of a length.
SectionLengthValue(section_length) ==
    IF section_length = "Unspecified" THEN SHB_UNSPECIFIED_LENGTH ELSE section_length

\* SectionHeaderBlock::new
SHBNew(byte_order_magic, major_version, minor_version, section_length, opts) ==
    [options |-> opts,
     section_length |-> SectionLengthValue(section_length),
     byte_order_magic |-> byte_order_magic,
     major_version |-> major_version,
     minor_version |-> minor_version]

\* new_with_defaults with a section length of zero instead of "unspecified".
SHBNewWithDefaultsZeroLength(opts) ==
    SHBNew(BYTE_ORDER_MAGIC, 1, 0, <<0, 0, 0, 0, 0, 0, 0, 0>>, opts)

\* SectionHeaderBlock::new_with_defaults
SHBNewWithDefaults(opts) == SHBNew(BYTE_ORDER_MAGIC, 1, 0, "Unspecified", opts)

\* <SectionHeaderBlock as Block>::length
SHBLength(b) == BLOCK_COMMON_LEN + 4 + 2 + 2 + 8 + OptionsLength(b.options)

\* Finish with the trailing length taken before the options were counted.
FinishTrailingWithoutOptions(head, opts, total_length, B) ==
    LET o == OptionsEncode(opts, B) IN
    IF o.res = "Ok"
    THEN Ok(head \o o.out \o write_u32(total_length - Len(o.out), B))
    ELSE [out |-> head \o o.out, res |-> o.res]

\* The writes of a block encode call after its fixed fields and payload: the
\* option list, then the total length again unless the options did not return Ok.
Finish(head, opts, total_length, B) ==
    LET o == OptionsEncode(opts, B) IN
    IF o.res = "Ok"
    THEN Ok(head \o o.out \o write_u32(total_length, B))
    ELSE [out |-> head \o o.out, res |-> o.res]

\* SHBEncode with the magic written most significant byte first in either order.
SHBEncodeMagicBigEndian(b, B) ==
    IF OptionsLengthPanics(b.options) THEN Panic(<<>>)
    ELSE LET total_length == SHBLength(b) IN
         Finish(write_u32(TYPE_SHB, B) \o write_u32(total_length, B)
                \o write_u32(b.byte_order_magic, "Big")
                \o write_u16(b.major_version, B) \o write_u16(b.minor_version, B)
                \o write_u64(b.section_length, B),
                b.options, total_length, B)

\* <SectionHeaderBlock as Encodable>::encode
SHBEncode(b, B) ==
    IF OptionsLengthPanics(b.options) THEN Panic(<<>>)
    ELSE LET total_length == SHBLength(b) IN
         Finish(write_u32(TYPE_SHB, B) \o write_u32(total_length, B)
                \o write_u32(b.byte_order_magic, B)
                \o write_u16(b.major_version, B) \o write_u16(b.minor_version, B)
                \o write_u64(b.section_length, B),
                b.options, total_length, B)

\* InterfaceDescriptionBlock::new
IDBNew(link_type, snap_len, opts) ==
    [options |-> opts, link_type |-> link_type, snap_len |-> snap_len]

\* <InterfaceDescriptionBlock as Block>::length
IDBLength(b) == BLOCK_COMMON_LEN + 2 + 2 + 4 + OptionsLength(b.options)

\* IDBEncode with the link type repeated in the reserved field.
IDBEncodeReservedLinkType(b, B) ==
    IF OptionsLengthPanics(b.options) THEN Panic(<<>>)
    ELSE LET total_length == IDBLength(b) IN
         Finish(write_u32(TYPE_IDB, B) \o write_u32(total_length, B)
                \o write_u16(b.link_type, B) \o write_u16(b.link_type, B)
                \o write_u32(b.snap_len, B),
                b.options, total_length, B)

\* <InterfaceDescriptionBlock as Encodable>::encode
IDBEncode(b, B) ==
    IF OptionsLengthPanics(b.options) THEN Panic(<<>>)
    ELSE LET total_length == IDBLength(b) IN
         Finish(write_u32(TYPE_IDB, B) \o write_u32(total_length, B)
                \o write_u16(b.link_type, B) \o write_u16(0, B)
                \o write_u32(b.snap_len, B),
                b.options, total_length, B)

\* InterfaceStatisticsBlock::new
ISBNew(interface_id, ts_high, ts_low, opts) ==
    [options |-> opts,
     interface_id |-> interface_id, ts_high |-> ts_high, ts_low |-> ts_low]

\* <InterfaceStatisticsBlock as Block>::length
ISBLength(b) == BLOCK_COMMON_LEN + 4 + 4 + 4 + OptionsLength(b.options)

\* <InterfaceStatisticsBlock as Encodable>::encode
ISBEncode(b, B) ==
    IF OptionsLengthPanics(b.options) THEN Panic(<<>>)
    ELSE LET total_length == ISBLength(b) IN
         Finish(write_u32(TYPE_ISB, B) \o write_u32(total_length, B)
                \o write_u32(b.interface_id, B)
                \o write_u32(b.ts_high, B) \o write_u32(b.ts_low, B),
                b.options, total_length, B)

\* EPBNew with the captured length limited to the original length.
EPBNewClamped(interface_id, ts_high, ts_low, cap_len, orig_len, packet_data, opts) ==
    [options |-> opts,
     interface_id |-> interface_id, ts_high |-> ts_high, ts_low |-> ts_low,
     packet_data |-> packet_data,
     cap_packet_len |-> IF cap_len > orig_len THEN orig_len ELSE cap_len,
     orig_packet_len |-> orig_len]

\* EnhancedPacketBlock::new
EPBNew(interface_id, ts_high, ts_low, cap_len, orig_len, packet_data, opts) ==
    [options |-> opts,
     interface_id |-> interface_id, ts_high |-> ts_high, ts_low |-> ts_low,
     packet_data |-> packet_data,
     cap_packet_len |-> cap_len, orig_packet_len |-> orig_len]

\* EnhancedPacketBlock::data_padding
EPBDataPadding(b) == Zeros(Len(b.packet_data) % 4)

\* <EnhancedPacketBlock as Block>::length
EPBLength(b) ==
    BLOCK_COMMON_LEN + 4 + 4 + 4 + 4 + 4
    + Len(b.packet_data) + Len(EPBDataPadding(b)) + OptionsLength(b.options)

\* EPBEncode with the length computed after the block type is written.
EPBEncodeTypeBeforeLength(b, B) ==
    IF OptionsLengthPanics(b.options) THEN Panic(write_u32(TYPE_EPB, B))
    ELSE LET total_length == EPBLength(b) IN
         Finish(write_u32(TYPE_EPB, B) \o write_u32(total_length, B)
                \o write_u32(b.interface_id, B)
                \o write_u32(b.ts_high, B) \o write_u32(b.ts_low, B)
                \o write_u32(b.cap_packet_len, B) \o write_u32(b.orig_packet_len, B)
                \o b.packet_data \o EPBDataPadding(b),
                b.options, total_length, B)

\* <EnhancedPacketBlock as Encodable>::encode
EPBEncode(b, B) ==
    IF OptionsLengthPanics(b.options) THEN Panic(<<>>)
    ELSE LET total_length == EPBLength(b) IN
         Finish(write_u32(TYPE_EPB, B) \o write_u32(total_length, B)
                \o write_u32(b.interface_id, B)
                \o write_u32(b.ts_high, B) \o write_u32(b.ts_low, B)
                \o write_u32(b.cap_packet_len, B) \o write_u32(b.orig_packet_len, B)
                \o b.packet_data \o EPBDataPadding(b),
                b.options, total_length, B)

\* SimplePacketBlock::new
SPBNew(orig_len, packet_data) ==
    [packet_data |-> packet_data, orig_packet_len |-> orig_len]

\* SimplePacketBlock::data_padding
SPBDataPadding(b) == Zeros(Len(b.packet_data) % 4)

\* <SimplePacketBlock as Block>::length
SPBLength(b) ==
    BLOCK_COMMON_LEN + 4 + Len(b.packet_data) + Len(SPBDataPadding(b))

\* SPBEncode with the type tag written most significant byte first in either order.
SPBEncodeTypeBigEndian(b, B) ==
    LET total_length == SPBLength(b) IN
    Ok(write_u32(TYPE_SPB, "Big") \o write_u32(total_length, B)
       \o write_u32(b.orig_packet_len, B)
       \o b.packet_data \o SPBDataPadding(b)
       \o write_u32(total_length, B))

\* <SimplePacketBlock as Encodable>::encode
SPBEncode(b, B) ==
    LET total_length == SPBLength(b) IN
    Ok(write_u32(TYPE_SPB, B) \o write_u32(total_length, B)
       \o write_u32(b.orig_packet_len, B)
       \o b.packet_data \o SPBDataPadding(b)
       \o write_u32(total_length, B))

\* RawBlock::new
RawBlockNew(block_type, total_length1, total_length2, body) ==
    [block_type |-> block_type, total_length1 |-> total_length1,
     total_length2 |-> total_length2, body |-> body]

\* RawBlockEncode with the first length written in both length fields.
RawBlockEncodeOneLength(b, B) ==
    Ok(write_u32(b.block_type, B) \o write_u32(b.total_length1, B)
       \o b.body \o write_u32(b.total_length1, B))

\* <RawBlock as Encodable>::encode
RawBlockEncode(b, B) ==
    Ok(write_u32(b.block_type, B) \o write_u32(b.total_length1, B)
       \o b.body \o write_u32(b.total_length2, B))

----------------------------------------------------------------------------
(* The inputs the model draws from *)

Endiannesses == {"Big", "Little"}

\* What the sink handed to PcapNgWriter::new may already hold.
SinkPrefixes == {<<>>, <<238>>}

\* OptionEndOfOpt::new_option()
eoo == [kind |-> "OptEndOfOpt"]

\* OptionComment::new_option("Hello World!!")
comment_opt ==
    [kind |-> "OptComment",
     comment |-> <<72, 101, 108, 108, 111, 32, 87, 111, 114, 108, 100, 33, 33>>]

\* OptionIfName::new_option("eth0")
if_name_opt == [kind |-> "IfName", if_name |-> <<101, 116, 104, 48>>]

\* OptionIfMacAddr::new_option("0.1.2.3.4.5")
mac_opt == [kind |-> "IfMacAddr", mac_addr |-> <<0, 1, 2, 3, 4, 5>>]

\* BlockOption::EpbFlags(OptionEpbFlags::from_u32(0x00010203))
flags_opt == [kind |-> "EpbFlags", flags |-> Bits(66051, 32)]

\* BlockOption::Raw(RawOption::new(1, 3, vec![7, 8, 9])): declared length = value length
raw_opt == [kind |-> "Raw", code |-> 1, length |-> 3, value |-> <<7, 8, 9>>]

\* BlockOption::Raw(RawOption::new(1, 2, vec![7, 8, 9])): declared length # value length
raw_short_opt == [kind |-> "Raw", code |-> 1, length |-> 2, value |-> <<7, 8, 9>>]

\* BlockOption::ShbHardware: a kind without an encoding rule
hardware_opt == [kind |-> "ShbHardware"]

\* OptionIfTsResol::new_option(DEFAULT_TSRES): microseconds, 10^-6
tsresol_opt == [kind |-> "IfTsResol", tsresol |-> 6]

\* OptionComment::new_option("Test Comment")
test_comment_opt ==
    [kind |-> "OptComment",
     comment |-> <<84, 101, 115, 116, 32, 67, 111, 109, 109, 101, 110, 116>>]

OptionValues ==
    {eoo, comment_opt, if_name_opt, mac_opt, flags_opt, raw_opt, raw_short_opt,
     hardware_opt}

\* A packet payload of n bytes, none of them zero.
Payload(n) == [i \in 1..n |-> 160 + i]

Payloads == {Payload(n) : n \in 0..MaxPayload}

\* u32 field values: one byte wide and four distinct bytes wide.
InterfaceIds == {1, 16909060}

\* (captured length, original length): smaller, larger and equal.
CapOrigLens == {<<10, 20>>, <<20, 10>>, <<14, 14>>}

\* SectionHeaderBlock::new arguments
Magics == {BYTE_ORDER_MAGIC, 1295788826}   \* the constant, and 0x4D3C2B1A

Versions == {<<1, 0>>, <<258, 3>>}

SectionLengths == {"Unspecified", <<0, 0, 0, 0, 0, 0, 1, 44>>}

SnapLens == {1500, 65535}

\* Standard blocks a raw block is compared with: the Enhanced-Packet block of
\* tests::new_raw_be / new_raw_le, one with an option, and a Simple-Packet block.
StandardBlocks ==
    {<<"EPB", EPBNew(1, 1, 2, 10, 20, <<9, 9, 9, 9, 9, 9, 9, 9, 9, 9>>, <<>>)>>,
     <<"EPB", EPBNew(1, 1, 2, 10, 20, <<9, 9>>, <<flags_opt>>)>>,
     <<"SPB", SPBNew(10, <<9, 9, 9, 9>>)>>}

StandardEncode(std, B) ==
    IF std[1] = "EPB" THEN EPBEncode(std[2], B).out ELSE SPBEncode(std[2], B).out

\* The RawBlock::new arguments that repeat an encoded block: its type, its total
\* length twice, and the bytes between its two length fields.
RawOf(enc, B) ==
    <<ReadU32(enc, 0, B), ReadU32(enc, 4, B), ReadU32(enc, 4, B),
      SubSeq(enc, 9, Len(enc) - 4)>>

\* RawBlock::new arguments: lengths that differ from each other and from the real
\* size, bodies of any length, and the repeats of the standard blocks.
RawBlockInputs ==
    {<<t, l[1], l[2], body>> :
        t \in {6, 2989}, l \in {<<44, 44>>, <<16, 20>>}, body \in {<<>>, <<1, 2, 3>>}}
    \cup {RawOf(StandardEncode(std, B), B) : std \in StandardBlocks, B \in Endiannesses}

\* The bytes a sink accepts before it rejects a write: a Vec takes any number,
\* a fixed-size buffer takes what it has room for.  <<>> is a sink without a
\* limit, <<n>> one that accepts n more bytes.
SinkRooms == {<<>>, <<22>>}

\* The ways to build a writer: new(endianness, writer), new_le(writer), new_be(writer).
ConstructorCalls == {<<"new", "Big">>, <<"new", "Little">>, <<"new_le">>, <<"new_be">>}

----------------------------------------------------------------------------
(* The state machine *)

\* PcapNgWriter::new: the endianness field is the argument.
PcapNgWriterNew(e) == e

\* PcapNgWriter::new_le
new_le == PcapNgWriterNew("Little")

\* PcapNgWriter::new_be
new_be == PcapNgWriterNew("Big")

\* The endianness field of the writer a constructor call returns.
Construct(c) ==
    CASE c[1] = "new" -> PcapNgWriterNew(c[2])
      [] c[1] = "new_le" -> new_le
      [] c[1] = "new_be" -> new_be

NoWrite == [res |-> "Ok", op |-> "none", call |-> <<>>, arg |-> <<>>, start |-> 0]

\* A writer built over a sink, with an empty Options::new() list.
Init ==
    /\ built \in ConstructorCalls
    /\ endianness = Construct(built)
    /\ sink \in SinkPrefixes
    /\ room \in SinkRooms
    /\ options = <<>>
    /\ last = NoWrite
    /\ log = <<>>

\* A panic ends the program.
Running == last.res # "Panic"

\* PcapNgWriter::new / new_le / new_be on another sink; the option list lives on.
NewWriter(c, w, r) ==
    /\ Running
    /\ last.op # "none"
    /\ built' = c
    /\ endianness' = Construct(c)
    /\ sink' = w
    /\ room' = r
    /\ last' = NoWrite
    /\ log' = <<>>
    /\ UNCHANGED options

\* Options::add_option.  The list is built before it is used: a block borrows it,
\* and the caller changes it again only for the next writer.
AddOption(opt) ==
    /\ Running
    /\ last.op = "none"
    /\ Len(options) < MaxOpts
    /\ options' = Append(options, opt)
    /\ UNCHANGED <<endianness, sink, last, log, room, built>>

\* Options::clear
Clear ==
    /\ Running
    /\ last.op = "none"
    /\ options # <<>>
    /\ options' = <<>>
    /\ UNCHANGED <<endianness, sink, last, log, room, built>>

\* PcapNgWriter::write: encode in the writer's byte order into the writer's sink.
\* le and be are the outcome of encode::<LittleEndian> and encode::<BigEndian>;
\* call is the constructor call that built arg, the value encoded.
\* IntoSink with the bytes of a failed call taken back out of the sink.
IntoSinkRolledBack(e, r) ==
    IF r = <<>> \/ Len(e.out) <= r[1] THEN e
    ELSE [out |-> <<>>, res |-> "Err"]

\* What an encode call does to a sink with room for r more bytes: the sink takes
\* the bytes up to its room, and the write that finds it full returns the sink's
\* error, which ends the call (the ? after every write).
IntoSink(e, r) ==
    IF r = <<>> \/ Len(e.out) <= r[1] THEN e
    ELSE [out |-> SubSeq(e.out, 1, r[1]), res |-> "Err"]

RoomAfter(e, r) == IF r = <<>> THEN r ELSE <<r[1] - Len(IntoSink(e, r).out)>>

\* Dispatch with encode::<BigEndian> taken whatever the writer's endianness.
DispatchBigEndian(le, be) == be

\* The match of PcapNgWriter::write: encode::<LittleEndian> or encode::<BigEndian>.
Dispatch(le, be) == IF endianness = "Little" THEN le ELSE be

\* The record of a write call that ended as e did.
Written(op, call, arg, e) ==
    [res |-> e.res, op |-> op, call |-> call, arg |-> arg, start |-> Len(sink)]

WriterWrite(op, call, arg, le, be) ==
    LET e == IntoSink(Dispatch(le, be), room) IN
    /\ Running
    /\ last.op = "none"
    /\ sink' = sink \o e.out
    /\ room' = RoomAfter(Dispatch(le, be), room)
    /\ last' = Written(op, call, arg, e)
    /\ log' = Append(log, Written(op, call, arg, e))
    /\ UNCHANGED <<endianness, options, built>>

WriteOptions ==
    WriterWrite("Options", <<"Options">>, options,
                OptionsEncode(options, "Little"), OptionsEncode(options, "Big"))

WriteSHBDefaults ==
    LET b == SHBNewWithDefaults(options) IN
    WriterWrite("SHB", <<"new_with_defaults">>, b,
                SHBEncode(b, "Little"), SHBEncode(b, "Big"))

WriteSHB(magic, version, section_length) ==
    LET b == SHBNew(magic, version[1], version[2], section_length, options) IN
    WriterWrite("SHB", <<"new", magic, version[1], version[2], section_length>>, b,
                SHBEncode(b, "Little"), SHBEncode(b, "Big"))

WriteIDB(snap_len) ==
    LET b == IDBNew(LINKTYPE_ETHERNET, snap_len, options) IN
    WriterWrite("IDB", <<"new", LINKTYPE_ETHERNET, snap_len>>, b,
                IDBEncode(b, "Little"), IDBEncode(b, "Big"))

WriteISB(interface_id) ==
    LET b == ISBNew(interface_id, 100, 200, options) IN
    WriterWrite("ISB", <<"new", interface_id, 100, 200>>, b,
                ISBEncode(b, "Little"), ISBEncode(b, "Big"))

WriteEPB(interface_id, lens, packet_data) ==
    LET b == EPBNew(interface_id, 1, 2, lens[1], lens[2], packet_data, options) IN
    WriterWrite("EPB", <<"new", interface_id, 1, 2, lens[1], lens[2], packet_data>>, b,
                EPBEncode(b, "Little"), EPBEncode(b, "Big"))

WriteSPB(packet_data) ==
    LET b == SPBNew(10, packet_data) IN
    WriterWrite("SPB", <<"new", 10, packet_data>>, b,
                SPBEncode(b, "Little"), SPBEncode(b, "Big"))

WriteRaw(r) ==
    LET b == RawBlockNew(r[1], r[2], r[3], r[4]) IN
    WriterWrite("Raw", <<"new", r[1], r[2], r[3], r[4]>>, b,
                RawBlockEncode(b, "Little"), RawBlockEncode(b, "Big"))

Next ==
    \/ \E c \in ConstructorCalls, w \in SinkPrefixes, r \in SinkRooms : NewWriter(c, w, r)
    \/ \E opt \in OptionValues : AddOption(opt)
    \/ Clear
    \/ WriteOptions
    \/ WriteSHBDefaults
    \/ \E m \in Magics, v \in Versions, l \in SectionLengths : WriteSHB(m, v, l)
    \/ \E s \in SnapLens : WriteIDB(s)
    \/ \E i \in InterfaceIds : WriteISB(i)
    \/ \E i \in InterfaceIds, l \in CapOrigLens, p \in Payloads : WriteEPB(i, l, p)
    \/ \E p \in Payloads : WriteSPB(p)
    \/ \E r \in RawBlockInputs : WriteRaw(r)

Spec == Init /\ [][Next]_vars

----------------------------------------------------------------------------
(* A stream of blocks: several write calls on one writer, each block built   *)
(* with its own option list, as tests::round_trip_le and the integration     *)
(* test pcapng_file_from_bytes do.                                           *)

\* The option lists of the Section-Header and Interface-Description blocks.
StreamHeaderOptions == {<<>>, <<tsresol_opt, eoo>>}

\* The Enhanced-Packet blocks of a stream: interface id, payload, option list.
\* The 14-byte and 80-byte payloads are those of the tests.
StreamPackets ==
    {<<1, Payload(14), <<>>>>,
     <<0, Payload(80), <<test_comment_opt, flags_opt, eoo>>>>,
     <<1, Payload(14), <<raw_short_opt>>>>}

\* A writer built over an empty sink.
StreamInit ==
    /\ built \in ConstructorCalls
    /\ endianness = Construct(built)
    /\ sink = <<>>
    /\ room \in {<<>>, <<50>>}
    /\ options = <<>>
    /\ last = NoWrite
    /\ log = <<>>

\* PcapNgWriter::write on a writer that may have written before; opts is the
\* option list the caller built for the block.
StreamWrite(op, call, arg, opts, le, be) ==
    LET e == IntoSink(Dispatch(le, be), room) IN
    /\ Running
    /\ Len(log) < MaxWrites
    /\ sink' = sink \o e.out
    /\ room' = RoomAfter(Dispatch(le, be), room)
    /\ last' = Written(op, call, arg, e)
    /\ log' = Append(log, Written(op, call, arg, e))
    /\ options' = opts
    /\ UNCHANGED <<endianness, built>>

StreamSHB(opts) ==
    LET b == SHBNewWithDefaults(opts) IN
    StreamWrite("SHB", <<"new_with_defaults">>, b, opts,
                SHBEncode(b, "Little"), SHBEncode(b, "Big"))

StreamIDB(opts) ==
    LET b == IDBNew(LINKTYPE_ETHERNET, 1500, opts) IN
    StreamWrite("IDB", <<"new", LINKTYPE_ETHERNET, 1500>>, b, opts,
                IDBEncode(b, "Little"), IDBEncode(b, "Big"))

StreamEPB(p) ==
    LET b == EPBNew(p[1], 1, 2, Len(p[2]), Len(p[2]), p[2], p[3]) IN
    StreamWrite("EPB", <<"new", p[1], 1, 2, Len(p[2]), Len(p[2]), p[2]>>, b, p[3],
                EPBEncode(b, "Little"), EPBEncode(b, "Big"))

StreamRaw ==
    LET b == RawBlockNew(2989, 16, 16, <<1, 2, 3, 4>>) IN
    StreamWrite("Raw", <<"new", 2989, 16, 16, <<1, 2, 3, 4>>>>, b, options,
                RawBlockEncode(b, "Little"), RawBlockEncode(b, "Big"))

StreamNext ==
    \/ \E opts \in StreamHeaderOptions : StreamSHB(opts)
    \/ \E opts \in StreamHeaderOptions : StreamIDB(opts)
    \/ \E p \in StreamPackets : StreamEPB(p)
    \/ StreamRaw

StreamSpec == StreamInit /\ [][StreamNext]_vars

----------------------------------------------------------------------------
(* Options built from what the caller supplies: texts of any length and MAC *)
(* address strings, in a list which is then encoded.                        *)

\* A text of n bytes.
Text(n) == [i \in 1..n |-> 97]

\* Texts up to, at and beyond the longest a 16-bit length field can declare.
SuppliedTexts == {Text(13), Text(65535), Text(65536)}

\* "0.1.2.3.4.5", "+0.01.2.3.4.255", "0.1.2", "0.1.2.3.4.256", "0:1:2:3:4:5"
SuppliedMacAddrs ==
    {<<48, 46, 49, 46, 50, 46, 51, 46, 52, 46, 53>>,
     <<43, 48, 46, 48, 49, 46, 50, 46, 51, 46, 52, 46, 50, 53, 53>>,
     <<48, 46, 49, 46, 50>>,
     <<48, 46, 49, 46, 50, 46, 51, 46, 52, 46, 50, 53, 54>>,
     <<48, 58, 49, 58, 50, 58, 51, 58, 52, 58, 53>>}

\* OptionComment / OptionIfName / OptionIfDescription ::new_option(text), added
\* to the empty list or after MAC address options.
NewTextOption(kind, text) ==
    /\ Running
    /\ last.op = "none"
    /\ Len(options) < MaxOpts
    /\ \A i \in 1..Len(options) : options[i].kind = "IfMacAddr"
    /\ options' = Append(options,
                         CASE kind = "OptComment" -> OptionCommentNew(text)
                           [] kind = "IfName" -> OptionIfNameNew(text)
                           [] kind = "IfDescription" -> OptionIfDescriptionNew(text))
    /\ UNCHANGED <<endianness, sink, last, log, room, built>>

\* OptionIfMacAddr::new_option(mac_addr), added to the empty list; a panic of
\* the constructor ends the program.
NewMacAddrOption(mac_addr) ==
    LET c == OptionIfMacAddrNew(mac_addr) IN
    /\ Running
    /\ last.op = "none"
    /\ options = <<>>
    /\ IF c.res = "Ok"
       THEN options' = <<c.value>> /\ UNCHANGED last
       ELSE /\ last' = [res |-> "Panic", op |-> "construct",
                        call |-> <<"OptionIfMacAddr::new", mac_addr>>,
                        arg |-> <<>>, start |-> Len(sink)]
            /\ UNCHANGED options
    /\ UNCHANGED <<endianness, sink, log, room, built>>

\* The option kinds BlockOption::bytes and BlockOption::length have no arm for.
UnimplementedKinds ==
    {"OptCustom", "ShbHardware", "ShbOs", "ShbUserAppl", "IfEuiAddr", "IfSpeed",
     "IfTZone", "IfFilter", "IfOs", "IfFcsLen", "IfTsOffset", "IfHardware",
     "EpbHash", "EpbDropCount"}

\* A BlockOption of a kind without an encoding rule; OptCustom carries its code.
Unimplemented(kind) ==
    IF kind = "OptCustom" THEN [kind |-> kind, code |-> 2988] ELSE [kind |-> kind]

\* Options::add_option of an option without an encoding rule, to a list that
\* holds no text.
AddUnimplementedOption(kind) ==
    /\ Running
    /\ last.op = "none"
    /\ Len(options) < MaxOpts
    /\ \A i \in 1..Len(options) : options[i].kind \notin TextKinds
    /\ options' = Append(options, Unimplemented(kind))
    /\ UNCHANGED <<endianness, sink, last, log, room, built>>

ConstructNext ==
    \/ \E kind \in TextKinds, text \in SuppliedTexts : NewTextOption(kind, text)
    \/ \E m \in SuppliedMacAddrs : NewMacAddrOption(m)
    \/ \E kind \in UnimplementedKinds : AddUnimplementedOption(kind)
    \/ WriteOptions
    \/ WriteSHBDefaults
    \/ \E s \in SnapLens : WriteIDB(s)
    \/ WriteISB(1)
    \/ WriteEPB(1, <<14, 14>>, Payload(3))

ConstructSpec == Init /\ [][ConstructNext]_vars

----------------------------------------------------------------------------
(* Timestamps.  A u128 is the sequence of its bits, most significant first, *)
(* and so are the two u32 halves of a timestamp.                            *)

U128(v) == Bits(v, 128)

\* Bits lo..hi of n times m, plus the carry from the bits after hi, for m and
\* carry at most 10^9: <<the bits of the product, the carry out>>.
RECURSIVE MulAddRange(_, _, _, _, _)
MulAddRange(n, m, lo, hi, carry) ==
    IF lo = hi
    THEN CHOOSE product \in {<<<<s % 2>>, s \div 2>> : s \in {n[lo] * m + carry}} : TRUE
    ELSE LET mid == (lo + hi) \div 2 IN
         CHOOSE product \in UNION {{<<left[1] \o right[1], left[2]>> :
                     left \in {MulAddRange(n, m, lo, mid, right[2])}} :
                     right \in {MulAddRange(n, m, mid + 1, hi, carry)}} : TRUE

\* n * m + a within the width of n (wrapping).
MulAdd(n, m, a) == CHOOSE product \in {MulAddRange(v, m, 1, Len(v), a)[1] : v \in {n}} : TRUE

\* The u128 written in groups of nine decimal digits, e.g. <<1, 700000000>>
\* for 1_700_000_000.
RECURSIVE Decimal(_, _)
Decimal(groups, i) ==
    IF i = 0 THEN U128(0)
    ELSE CHOOSE v \in {MulAdd(front, 1000000000, groups[i]) :
                       front \in {Decimal(groups, i - 1)}} : TRUE

Dec(groups) == Decimal(groups, Len(groups))

\* Long division over bits lo..hi of n by d, 0 < d < 2^30, rem the remainder
\* of the bits before lo: <<the quotient bits, the remainder>>.
RECURSIVE DivRange(_, _, _, _, _)
DivRange(n, d, lo, hi, rem) ==
    IF lo = hi
    THEN CHOOSE quotient \in {IF r >= d THEN <<<<1>>, r - d>> ELSE <<<<0>>, r>> :
                               r \in {2 * rem + n[lo]}} : TRUE
    ELSE LET mid == (lo + hi) \div 2 IN
         CHOOSE quotient \in UNION {{<<left[1] \o right[1], right[2]>> :
                     right \in {DivRange(n, d, mid + 1, hi, left[2])}} :
                     left \in {DivRange(n, d, lo, mid, rem)}} : TRUE

\* n / d with truncating division, in the width of n.
DivBits(n, d) == CHOOSE q \in {DivRange(v, d, 1, Len(v), 0)[1] : v \in {n}} : TRUE

\* u128 / u128 with a divisor below 2^30: division by zero panics in every build.
DivU128(n, d) ==
    IF d = 0 THEN [res |-> "Panic"]
    ELSE [value |-> DivBits(n, d), res |-> "Ok"]

\* n << k within 128 bits: the product n * 2^k, wrapped.
Shl(n, k) == SubSeq(n \o Zeros(256), k + 1, k + 128)

\* n * 2^k does not fit 128 bits.
ShlOverflows(n, k) == \E v \in {n} : \E i \in 1..128 : i <= k /\ v[i] = 1

\* (t >> 32) as u32 and (t & 0xffff_ffff) as u32
High(t) == SubSeq(t, 65, 96)

Low(t) == SubSeq(t, 97, 128)

\* The builds of the crate: with overflow checks (the dev profile), where an
\* arithmetic overflow panics, and without (the release profile), where it wraps.
Builds == {"checked", "wrapping"}

\* (10u128).pow(9 - power as u32).  For power > 9 the u32 subtraction overflows:
\* a panic with overflow checks; without them the exponent wraps to 2^32 + 9 -
\* power, at least 128, and the power wraps to 0 (10^e is a multiple of 2^128).
Pow10Exponent(power, build) ==
    IF power <= 9 THEN [value |-> 10^(9 - power), res |-> "Ok"]
    ELSE IF build = "checked" THEN [res |-> "Panic"]
    ELSE [value |-> 0, res |-> "Ok"]

\* ts_from_nanoseconds with the exponent 9 - power held at zero below zero.
ts_from_nanosecondsSaturating(ts_res, nanos, build) ==
    IF ts_res[1] = "PowerOfTen"
    THEN LET t == DivBits(nanos, IF ts_res[2] <= 9 THEN 10^(9 - ts_res[2]) ELSE 1) IN
         [value |-> <<High(t), Low(t)>>, res |-> "Ok"]
    ELSE LET t == Shl(DivBits(nanos, 1000000000), ts_res[2]) IN
         [value |-> <<High(t), Low(t)>>, res |-> "Ok"]

\* ts_from_nanoseconds with the two halves returned in the other order.
ts_from_nanosecondsLowFirst(ts_res, nanos, build) ==
    IF ts_res[1] = "PowerOfTen"
    THEN LET t == DivBits(nanos, IF ts_res[2] <= 9 THEN 10^(9 - ts_res[2]) ELSE 1) IN
         IF ts_res[2] > 9 THEN [res |-> "Panic"]
         ELSE [value |-> <<Low(t), High(t)>>, res |-> "Ok"]
    ELSE LET t == Shl(DivBits(nanos, 1000000000), ts_res[2]) IN
         [value |-> <<Low(t), High(t)>>, res |-> "Ok"]

\* TimestampResolution::ts_from_nanoseconds.  ts_res is <<"PowerOfTen", power>>
\* or <<"PowerOfTwo", power>> with power a u8.
ts_from_nanoseconds(ts_res, nanos, build) ==
    LET power == ts_res[2] IN
    IF ts_res[1] = "PowerOfTen"
    THEN LET e == Pow10Exponent(power, build) IN
         IF e.res = "Panic" THEN [res |-> "Panic"]
         ELSE LET t == DivU128(nanos, e.value) IN
              IF t.res = "Panic" THEN [res |-> "Panic"]
              ELSE [value |-> <<High(t.value), Low(t.value)>>, res |-> "Ok"]
    ELSE LET seconds == DivU128(nanos, 1000000000).value IN
         \* (2u128).pow(power) overflows from power 128 on; the product
         \* seconds * 2^power overflows when it does not fit 128 bits.
         IF build = "checked" /\ (power >= 128 \/ ShlOverflows(seconds, power))
         THEN [res |-> "Panic"]
         ELSE LET t == Shl(seconds, power) IN
              [value |-> <<High(t), Low(t)>>, res |-> "Ok"]

\* x | 1 << 7 and x & !(1 << 7) on a u8
SetBit7(x) == IF (x \div 128) % 2 = 1 THEN x ELSE x + 128

ClearBit7(x) == IF (x \div 128) % 2 = 1 THEN x - 128 ELSE x

\* to_tsresol without the mask on a power of ten.
to_tsresolUnmasked(ts_res) ==
    IF ts_res[1] = "PowerOfTwo" THEN SetBit7(ts_res[2]) ELSE ts_res[2]

\* TimestampResolution::to_tsresol
to_tsresol(ts_res) ==
    IF ts_res[1] = "PowerOfTwo" THEN SetBit7(ts_res[2]) ELSE ClearBit7(ts_res[2])

\* OptionIfTsResol::new_option
OptionIfTsResolNewOption(ts_res) == [kind |-> "IfTsResol", tsresol |-> to_tsresol(ts_res)]

\* EnhancedPacketBlock::from_timestamp
EPBFromTimestamp(interface_id, ts_res, nanoseconds, cap_len, orig_len, packet_data, opts, build) ==
    LET ts == ts_from_nanoseconds(ts_res, nanoseconds, build) IN
    IF ts.res = "Panic" THEN [res |-> "Panic"]
    ELSE [value |-> EPBNew(interface_id, Nat32(ts.value[1]), Nat32(ts.value[2]),
                           cap_len, orig_len, packet_data, opts),
          res |-> "Ok"]

(* The inputs *)

\* Every resolution a TimestampResolution value can hold.
Resolutions == {<<v, p>> : v \in {"PowerOfTen", "PowerOfTwo"}, p \in 0..255}

\* The resolutions timestamps are computed in: every power of ten, and the
\* powers of two of the source's tests (6, 14), around the widths 32, 64 and
\* 128 and at the ends of the u8 range.
TimestampResolutions ==
    {<<"PowerOfTen", p>> : p \in 0..255}
    \cup {<<"PowerOfTwo", p>> : p \in {0, 1, 6, 14, 31, 32, 33, 34, 63, 64, 65, 127, 128, 255}}

\* Nanosecond counts: below and at a microsecond, a time in 2023, the last
\* count below 2^64, 2^64, a count beyond it, and the largest u128.
U128_MAX == SubSeq([i \in 1..128 |-> 1], 1, 128)

NANOS_2023 == Dec(<<1, 700000000, 123456789>>)

Nanos ==
    {U128(0), U128(999), U128(1000), U128(1999999999), NANOS_2023,
     Dec(<<18, 446744073, 709551615>>),
     Dec(<<18, 446744073, 709551616>>),
     Dec(<<18446, 744073709, 552616000>>),
     U128_MAX}

\* The resolutions a capture declares for its interface.
DeclaredResolutions ==
    {<<"PowerOfTen", 6>>, <<"PowerOfTen", 9>>, <<"PowerOfTwo", 6>>, <<"PowerOfTen", 10>>}

(* The state machine: a call of one of the two functions of a resolution, or *)
(* a capture that declares its resolution in an Interface-Description block  *)
(* and then writes packets stamped by from_timestamp.                        *)

TimeInit ==
    /\ built \in {<<"new_le">>, <<"new_be">>}
    /\ endianness = Construct(built)
    /\ sink = <<>>
    /\ room = <<>>
    /\ options = <<>>
    /\ last = NoWrite
    /\ log = <<>>

\* A call of a function that writes nothing, with what it returned.
Called(op, call, r) ==
    /\ Running
    /\ last.op = "none"
    /\ last' = [res |-> r.res, op |-> op, call |-> call,
                arg |-> IF r.res = "Ok" THEN r.value ELSE <<>>, start |-> Len(sink)]
    /\ UNCHANGED <<endianness, sink, options, log, room, built>>

TsFromNanoseconds(ts_res, nanos, build) ==
    Called("ts_from_nanoseconds", <<ts_res, nanos, build>>,
           ts_from_nanoseconds(ts_res, nanos, build))

ToTsresol(ts_res) ==
    Called("to_tsresol", <<ts_res>>, [value |-> to_tsresol(ts_res), res |-> "Ok"])

\* An Interface-Description block with the options if_tsresol and end-of-options.
TimeIDB(ts_res) ==
    LET opts == <<OptionIfTsResolNewOption(ts_res), eoo>>
        b == IDBNew(LINKTYPE_ETHERNET, 1500, opts)
    IN
    /\ log = <<>>
    /\ StreamWrite("IDB", <<"new", LINKTYPE_ETHERNET, 1500, ts_res>>, b, opts,
                   IDBEncode(b, "Little"), IDBEncode(b, "Big"))

\* from_timestamp with the resolution the capture declared, then write.
TimeEPB(nanoseconds, build) ==
    LET ts_res == log[1].call[4]
        c == EPBFromTimestamp(0, ts_res, nanoseconds, 14, 14, Payload(14), <<>>, build)
    IN
    /\ log # <<>>
    /\ log[1].op = "IDB"
    /\ IF c.res = "Ok"
       THEN StreamWrite("EPB", <<"from_timestamp", 0, ts_res, nanoseconds, 14, 14,
                                 Payload(14), build>>,
                        c.value, <<>>,
                        EPBEncode(c.value, "Little"), EPBEncode(c.value, "Big"))
       ELSE /\ Running
            /\ last' = [res |-> "Panic", op |-> "from_timestamp",
                        call |-> <<"from_timestamp", 0, ts_res, nanoseconds, 14, 14,
                                   Payload(14), build>>,
                        arg |-> <<>>, start |-> Len(sink)]
            /\ UNCHANGED <<endianness, sink, options, log, room, built>>

TimeNext ==
    \/ \E ts_res \in TimestampResolutions, nanos \in Nanos, build \in Builds :
           TsFromNanoseconds(ts_res, nanos, build)
    \/ \E ts_res \in Resolutions : ToTsresol(ts_res)
    \/ \E ts_res \in DeclaredResolutions : TimeIDB(ts_res)
    \/ \E build \in Builds : TimeEPB(NANOS_2023, build)

TimeSpec == TimeInit /\ [][TimeNext]_vars

----------------------------------------------------------------------------
(* Options of the kinds with contents of their own: addresses, raw options  *)
(* and epb_flags words, built by their constructors, listed and encoded.    *)

\* OptionIfIpv4Addr::new, on the addresses ip.parse() and netmask.parse() give.
OptionIfIpv4AddrNew(ip, netmask) == [kind |-> "IfIpv4Addr", ip |-> ip, netmask |-> netmask]

\* OptionIfIpv6Addr::new, on the address ip.parse() gives.
OptionIfIpv6AddrNew(ip, prefix_len) ==
    [kind |-> "IfIpv6Addr", ip |-> ip, prefix_len |-> prefix_len]

\* RawOption::new
RawOptionNew(code, length, value) ==
    [kind |-> "Raw", code |-> code, length |-> length, value |-> value]

\* PacketDirection::value and ReceptionType::value
PacketDirectionValue(dir) ==
    CASE dir = "Inbound" -> 1
      [] dir = "Outbound" -> 2

ReceptionTypeValue(reception) ==
    CASE reception = "Unicast" -> 1
      [] reception = "Multicast" -> 2
      [] reception = "Broadcast" -> 3
      [] reception = "Promiscuous" -> 4

\* a | b on two u32
BitOr(a, b) ==
    CHOOSE r \in {SubSeq([i \in 1..32 |-> IF x[i] = 1 \/ y[i] = 1 THEN 1 ELSE 0], 1, 32) :
                  x \in {a}, y \in {b}} : TRUE

\* (v as u32) << k, for v below 2^16 and k at most 16
Shl32(v, k) == SubSeq(Bits(v, 32) \o Zeros(32), k + 1, k + 32)

\* OptionEpbFlags::new without the three masks.
OptionEpbFlagsNewUnmasked(dir, reception, fcs_length, error_flags) ==
    LET dir_bits == PacketDirectionValue(dir)
        rec_bits == ReceptionTypeValue(reception)
        fcs_bits == IF fcs_length = <<>> THEN 0 ELSE fcs_length[1]
    IN
    [kind |-> "EpbFlags",
     flags |-> BitOr(BitOr(Shl32(dir_bits, 0), Shl32(rec_bits, 2)),
                     BitOr(Shl32(fcs_bits, 5), Shl32(error_flags, 16)))]

\* OptionEpbFlags::new; fcs_length is <<>> for None and <<x>> for Some(x).
OptionEpbFlagsNew(dir, reception, fcs_length, error_flags) ==
    LET dir_bits == PacketDirectionValue(dir) % 4
        rec_bits == ReceptionTypeValue(reception) % 8
        fcs_bits == IF fcs_length = <<>> THEN 0 ELSE fcs_length[1] % 16
    IN
    [kind |-> "EpbFlags",
     flags |-> BitOr(BitOr(Shl32(dir_bits, 0), Shl32(rec_bits, 2)),
                     BitOr(Shl32(fcs_bits, 5), Shl32(error_flags, 16)))]

(* The inputs *)

\* OptionIfIpv4Addr::new_option("192.168.1.1", "255.255.255.0")
ipv4_opt == OptionIfIpv4AddrNew(<<192, 168, 1, 1>>, <<255, 255, 255, 0>>)

\* OptionIfIpv6Addr::new_option("2001:0db8:85a3:08d3:1319:8a2e:0370:7344", 64)
ipv6_opt ==
    OptionIfIpv6AddrNew(<<32, 1, 13, 184, 133, 163, 8, 211, 19, 25, 138, 46, 3, 112, 115, 68>>,
                        64)

\* vec![9u8; n], and the text of n tabs that has these bytes
Nines(n) == SubSeq([i \in 1..n |-> 9], 1, n)

\* RawOption::new(2, data.len() as u16, data) for data = vec![9u8; i], i in 9..=12
PaddingTestOptions == {RawOptionNew(2, n, Nines(n)) : n \in 9..12}

\* RawOption::new(1, 13, b"Hello World!!".to_vec())
raw_comment_opt == RawOptionNew(1, 13, comment_opt.comment)

\* The options of the lists: the addresses, the raw options and the typed
\* options with the raw options' codes and values.
ContentOptions ==
    {ipv4_opt, ipv6_opt, mac_opt, comment_opt, raw_comment_opt}
    \cup PaddingTestOptions
    \cup {OptionIfNameNew(Nines(n)) : n \in 9..12}

PacketDirections == {"Inbound", "Outbound"}

ReceptionTypes == {"Unicast", "Multicast", "Broadcast", "Promiscuous"}

\* fcs_length: Option<u8>
FcsLengths == {<<>>, <<0>>, <<4>>, <<15>>, <<16>>, <<255>>}

\* error_flags: u16
ErrorFlags == {0, 1, 258, 32768, 65535}

\* The writer on an empty sink with no limit.
OptionInit ==
    /\ built \in {<<"new_le">>, <<"new_be">>}
    /\ endianness = Construct(built)
    /\ sink = <<>>
    /\ room = <<>>
    /\ options = <<>>
    /\ last = NoWrite
    /\ log = <<>>

\* OptionEpbFlags::new_option, before any option is listed
NewEpbFlagsOption(dir, reception, fcs_length, error_flags) ==
    /\ options = <<>>
    /\ Called("OptionEpbFlags::new", <<dir, reception, fcs_length, error_flags>>,
              [value |-> OptionEpbFlagsNew(dir, reception, fcs_length, error_flags),
               res |-> "Ok"])

OptionNext ==
    \/ \E opt \in ContentOptions : AddOption(opt)
    \/ Clear
    \/ \E dir \in PacketDirections, reception \in ReceptionTypes,
          fcs_length \in FcsLengths, error_flags \in ErrorFlags :
           NewEpbFlagsOption(dir, reception, fcs_length, error_flags)
    \/ WriteOptions
    \/ WriteIDB(1500)

OptionSpec == OptionInit /\ [][OptionNext]_vars

----------------------------------------------------------------------------
(* What the claims read: the bytes the last call appended to the sink. *)

Emitted == SubSeq(sink, last.start + 1, Len(sink))

BlockOps == {"SHB", "IDB", "ISB", "EPB", "SPB"}

\* The last call encoded a block and returned Ok.
BlockWritten == last.op \in BlockOps /\ last.res = "Ok"

\* The last call encoded the option list alone and returned Ok.
OptionsWritten == last.op = "Options" /\ last.res = "Ok"

\* The option list of the block the last call encoded (a Simple-Packet has none).
BlockOptions == IF last.op = "SPB" THEN <<>> ELSE last.arg.options

\* The bytes the option list of the last block takes in the block.
BlockOptionBytes == Len(OptionsEncode(BlockOptions, endianness).out)

\* The bytes before the payload of a packet block.
PayloadOffset == IF last.op = "EPB" THEN 28 ELSE 12

\* The bytes written between the payload and the options of a packet block.
PaddingWritten ==
    Len(Emitted) - PayloadOffset - Len(last.arg.packet_data) - BlockOptionBytes - 4

----------------------------------------------------------------------------
(* C1..C4: the block envelope *)

\* C1: for each of the five block kinds, the total_length the encoder writes into
\* the block equals the number of bytes one full encode call appends to the sink,
\* in both byte orders.
C1_TotalLengthIsBytesWritten ==
    BlockWritten => ReadU32(Emitted, 4, endianness) = Len(Emitted)

\* C2: the total encoded length of every block of the five kinds is a multiple of
\* 4 bytes, for every payload length and option list.
C2_BlockLengthMultipleOf4 ==
    BlockWritten => Len(Emitted) % 4 = 0

\* C3: for a payload of L bytes in an Enhanced-Packet or Simple-Packet block, the
\* padding written after the payload is (4 - L mod 4) mod 4 bytes, in 0..3, and
\* payload plus padding is divisible by 4.
C3_PayloadPadding ==
    (BlockWritten /\ last.op \in {"EPB", "SPB"}) =>
        LET L == Len(last.arg.packet_data) IN
        /\ PaddingWritten = (4 - (L % 4)) % 4
        /\ PaddingWritten \in 0..3
        /\ (L + PaddingWritten) % 4 = 0

\* C4: in every block of the five kinds, the total-length field after the type tag
\* and the total-length field in the last 4 bytes hold the same number.
C4_LengthFieldsAgree ==
    BlockWritten =>
        ReadU32(Emitted, 4, endianness) = ReadU32(Emitted, Len(Emitted) - 4, endianness)

\* C4's case: an Enhanced-Packet block with a payload and two options was encoded.
C4_Witness ==
    /\ BlockWritten
    /\ last.op = "EPB"
    /\ Len(last.arg.packet_data) = 3
    /\ Len(last.arg.options) = 2

----------------------------------------------------------------------------
(* C5..C7: options and option lists *)

\* The code and the value an option puts on the wire.
OptWireCode(o) == IF o.kind = "Raw" THEN o.code ELSE OptCode(o)

OptWireValue(o, B) == IF o.kind = "Raw" THEN o.value ELSE OptBytes(o, B)

\* The bytes of s from off on are the options opts[i..], each as
\* code(2) | length(2) | value | 0..3 zero bytes, with the length field equal to
\* the number of value bytes and each option a multiple of 4 bytes long.
RECURSIVE WireFormFrom(_, _, _, _, _)
WireFormFrom(s, off, opts, i, B) ==
    IF i > Len(opts) THEN off = Len(s)
    ELSE LET value == OptWireValue(opts[i], B) IN
         /\ off + 4 + Len(value) <= Len(s)
         /\ ReadU16(s, off, B) = OptWireCode(opts[i])
         /\ ReadU16(s, off + 2, B) = Len(value)
         /\ Slice(s, off + 4, Len(value)) = value
         /\ \E k \in 0..3 :
                /\ (4 + Len(value) + k) % 4 = 0
                /\ Slice(s, off + 4 + Len(value), k) = Zeros(k)
                /\ WireFormFrom(s, off + 4 + Len(value) + k, opts, i + 1, B)

DeclaredLength(o, B) == IF o.kind = "Raw" THEN o.length ELSE Len(OptWireValue(o, B))

\* As WireFormFrom, with a raw option's length field and padding following the
\* length it declares, whatever the length of its value.
RECURSIVE DeclaredFormFrom(_, _, _, _, _)
DeclaredFormFrom(s, off, opts, i, B) ==
    IF i > Len(opts) THEN off = Len(s)
    ELSE LET value == OptWireValue(opts[i], B)
             declared == DeclaredLength(opts[i], B)
             k == (4 - (declared % 4)) % 4
         IN
         /\ off + 4 + Len(value) + k <= Len(s)
         /\ ReadU16(s, off, B) = OptWireCode(opts[i])
         /\ ReadU16(s, off + 2, B) = declared
         /\ Slice(s, off + 4, Len(value)) = value
         /\ Slice(s, off + 4 + Len(value), k) = Zeros(k)
         /\ (declared = Len(value)) => (4 + Len(value) + k) % 4 = 0
         /\ DeclaredFormFrom(s, off + 4 + Len(value) + k, opts, i + 1, B)

RECURSIVE DeclaredSum(_, _)
DeclaredSum(opts, i) ==
    IF i > Len(opts) THEN 0
    ELSE LET declared == OptLength(opts[i]) IN
         declared + ((4 - (declared % 4)) % 4) + 4 + DeclaredSum(opts, i + 1)

\* C6: Options::length() is the sum over the options of (declared length +
\* padding + 4), and it is the number of bytes Options::encode appends.
C6_OptionsLengthIsBytesWritten ==
    OptionsWritten =>
        /\ OptionsLength(options) = DeclaredSum(options, 1)
        /\ OptionsLength(options) = Len(Emitted)

\* Where the i-th option of the list starts in the encoded list.
RECURSIVE EncOffset(_)
EncOffset(i) ==
    IF i = 1 THEN 0
    ELSE EncOffset(i - 1) + Len(OptEncode(options[i - 1], endianness).out)

\* C7: encoding an option list emits the encodings of its options in insertion
\* order and nothing else: no reordering, duplicates kept, no separator, no
\* end-of-options option the caller did not add, no byte for an empty list.
C7_OptionsInOrder ==
    OptionsWritten =>
        /\ \A i \in 1..Len(options) :
               LET enc == OptEncode(options[i], endianness).out IN
               Slice(Emitted, EncOffset(i), Len(enc)) = enc
        /\ Len(Emitted) = EncOffset(Len(options) + 1)

\* C7's case: a list of two equal options, none of them end-of-options.
C7_Witness ==
    /\ OptionsWritten
    /\ Len(options) = 2
    /\ options[1] = options[2]
    /\ options[1] = mac_opt
    /\ Len(Emitted) = 24

----------------------------------------------------------------------------
(* C8..C10: the Enhanced-Packet and Section-Header blocks *)

\* The u64 at an offset, as its eight bytes, most significant first.
ReadU64(s, off, B) == IF B = "Big" THEN Slice(s, off, 8) ELSE Reverse(Slice(s, off, 8))

\* C8: an Enhanced-Packet block is type 6 | total_length | interface_id | ts_high |
\* ts_low | captured_len | original_len | payload from offset 28 | zero padding |
\* options | total_length, with captured_len and original_len as supplied,
\* whatever their relation to each other and to the payload length.
C8_EnhancedPacketLayout ==
    (last.op = "EPB" /\ last.res = "Ok") =>
        LET s == Emitted
            B == endianness
            c == last.call
            L == Len(c[7])
            opts == OptionsEncode(options, B).out
        IN
        /\ ReadU32(s, 0, B) = 6
        /\ ReadU32(s, 4, B) = EPBLength(last.arg)
        /\ ReadU32(s, 8, B) = c[2]
        /\ ReadU32(s, 12, B) = c[3]
        /\ ReadU32(s, 16, B) = c[4]
        /\ ReadU32(s, 20, B) = c[5]
        /\ ReadU32(s, 24, B) = c[6]
        /\ Slice(s, 28, L) = c[7]
        /\ \E k \in 0..3 :
               /\ Slice(s, 28 + L, k) = Zeros(k)
               /\ Slice(s, 28 + L + k, Len(opts)) = opts
               /\ Len(s) = 28 + L + k + Len(opts) + 4
        /\ ReadU32(s, Len(s) - 4, B) = ReadU32(s, 4, B)

\* C8's case: captured length 20 above original length 10, a 3-byte payload and
\* an option.
C8_Witness ==
    /\ last.op = "EPB"
    /\ last.res = "Ok"
    /\ last.call[5] = 20
    /\ last.call[6] = 10
    /\ Len(last.call[7]) = 3
    /\ options = <<flags_opt>>
    /\ ReadU32(Emitted, 20, endianness) = 20

\* C9: a Section-Header block is type 0x0A0D0D0A | total_length | magic (4) |
\* major (2) | minor (2) | section_length (8) | options | total_length with
\* total_length = 28 + the option list's length; new_with_defaults gives major 1,
\* minor 0 and section_length 0xFFFFFFFFFFFFFFFF.
C9_SectionHeaderLayout ==
    (last.op = "SHB" /\ last.res = "Ok") =>
        LET s == Emitted
            B == endianness
            c == last.call
            opts == OptionsEncode(options, B).out
        IN
        /\ ReadU32(s, 0, B) = 168627466
        /\ ReadU32(s, 4, B) = 28 + OptionsLength(options)
        /\ Slice(s, 24, Len(opts)) = opts
        /\ Len(s) = 24 + Len(opts) + 4
        /\ ReadU32(s, Len(s) - 4, B) = ReadU32(s, 4, B)
        /\ c[1] = "new_with_defaults" =>
               /\ ReadU16(s, 12, B) = 1
               /\ ReadU16(s, 14, B) = 0
               /\ ReadU64(s, 16, B) = <<255, 255, 255, 255, 255, 255, 255, 255>>
        /\ c[1] = "new" =>
               /\ ReadU32(s, 8, B) = c[2]
               /\ ReadU16(s, 12, B) = c[3]
               /\ ReadU16(s, 14, B) = c[4]
               /\ ReadU64(s, 16, B) =
                      IF c[5] = "Unspecified"
                      THEN <<255, 255, 255, 255, 255, 255, 255, 255>> ELSE c[5]

\* C9's case: new_with_defaults with an option and end-of-options, little-endian.
C9_Witness ==
    /\ last.op = "SHB"
    /\ last.res = "Ok"
    /\ last.call[1] = "new_with_defaults"
    /\ endianness = "Little"
    /\ options = <<comment_opt, eoo>>
    /\ ReadU32(Emitted, 4, endianness) = 52

\* The bytes of 0x1A2B3C4D in the writer's byte order.
MagicBytes ==
    IF endianness = "Big" THEN <<26, 43, 60, 77>> ELSE <<77, 60, 43, 26>>

\* C10 as stated: every Section-Header block the encoder emits carries the
\* constant 0x1A2B3C4D in its byte-order-magic field (bytes 8..12), not a value
\* its caller chose.
C10_MagicIsConstant ==
    (last.op = "SHB" /\ last.res = "Ok") => Slice(Emitted, 8, 4) = MagicBytes

\* C10, amended: a Section-Header block built by new_with_defaults carries the
\* constant 0x1A2B3C4D in bytes 8..12 (1A 2B 3C 4D big-endian, 4D 3C 2B 1A
\* little-endian); SectionHeaderBlock::new takes the magic from its caller and the
\* block carries that value, written in the writer's byte order.  In neither case
\* is the value computed from the write endianness.
C10_MagicAmended ==
    (last.op = "SHB" /\ last.res = "Ok") =>
        /\ last.call[1] = "new_with_defaults" => Slice(Emitted, 8, 4) = MagicBytes
        /\ last.call[1] = "new" => ReadU32(Emitted, 8, endianness) = last.call[2]

\* C10's case: new() with the magic 0x4D3C2B1A, written little-endian, puts the
\* bytes 1A 2B 3C 4D at offset 8.
C10_Witness ==
    /\ last.op = "SHB"
    /\ last.res = "Ok"
    /\ last.call[1] = "new"
    /\ last.call[2] = 1295788826
    /\ endianness = "Little"
    /\ Slice(Emitted, 8, 4) = <<26, 43, 60, 77>>

----------------------------------------------------------------------------
(* C11..C14: the other block kinds *)

\* C11: an Interface-Description block is type 1 | total_length | link_type (2) |
\* reserved = 0 (2) | snap_len (4) | options | total_length with total_length =
\* 20 + the option list's length; an Interface-Statistics block is type 5 |
\* total_length | interface_id | ts_high | ts_low | options | total_length with
\* total_length = 24 + the option list's length.
C11_InterfaceBlocksLayout ==
    (last.op \in {"IDB", "ISB"} /\ last.res = "Ok") =>
        LET s == Emitted
            B == endianness
            c == last.call
            opts == OptionsEncode(options, B).out
            fixed == IF last.op = "IDB" THEN 16 ELSE 20
        IN
        /\ Slice(s, fixed, Len(opts)) = opts
        /\ Len(s) = fixed + Len(opts) + 4
        /\ ReadU32(s, Len(s) - 4, B) = ReadU32(s, 4, B)
        /\ last.op = "IDB" =>
               /\ ReadU32(s, 0, B) = 1
               /\ ReadU32(s, 4, B) = 20 + OptionsLength(options)
               /\ ReadU16(s, 8, B) = c[2]
               /\ ReadU16(s, 10, B) = 0
               /\ ReadU32(s, 12, B) = c[3]
        /\ last.op = "ISB" =>
               /\ ReadU32(s, 0, B) = 5
               /\ ReadU32(s, 4, B) = 24 + OptionsLength(options)
               /\ ReadU32(s, 8, B) = c[2]
               /\ ReadU32(s, 12, B) = c[3]
               /\ ReadU32(s, 16, B) = c[4]

\* C11's case: an Interface-Description block with link type 1, snap length
\* 65535 and an interface name, encoded big-endian in 28 bytes.
C11_Witness ==
    /\ last.op = "IDB"
    /\ last.res = "Ok"
    /\ endianness = "Big"
    /\ options = <<if_name_opt>>
    /\ Slice(Emitted, 0, 16) = <<0, 0, 0, 1, 0, 0, 0, 28, 0, 1, 0, 0, 0, 0, 255, 255>>

\* C12: a Simple-Packet block is type 3 | total_length | original_len (4) |
\* payload from offset 12 | zero padding to 4-byte alignment | total_length, with
\* no interface id, timestamp or options, and total_length = 16 + the payload
\* length rounded up to the next multiple of 4.
C12_SimplePacketLayout ==
    (last.op = "SPB" /\ last.res = "Ok") =>
        LET s == Emitted
            B == endianness
            c == last.call
            L == Len(c[3])
            rounded == ((L + 3) \div 4) * 4
        IN
        /\ ReadU32(s, 0, B) = 3
        /\ ReadU32(s, 4, B) = 16 + rounded
        /\ ReadU32(s, 8, B) = c[2]
        /\ Slice(s, 12, L) = c[3]
        /\ Slice(s, 12 + L, rounded - L) = Zeros(rounded - L)
        /\ Len(s) = 12 + rounded + 4
        /\ ReadU32(s, Len(s) - 4, B) = ReadU32(s, 4, B)

\* The type constant of each block kind.
TypeConstant(op) ==
    CASE op = "SHB" -> 168627466     \* 0x0A0D0D0A
      [] op = "IDB" -> 1
      [] op = "SPB" -> 3
      [] op = "ISB" -> 5
      [] op = "EPB" -> 6

\* C13: for every block kind and both byte orders, the first 4 bytes of the
\* encoded block, read as a 32-bit integer in the byte order of the encoding,
\* are the kind's type constant.
C13_TypeTag ==
    BlockWritten => ReadU32(Emitted, 0, endianness) = TypeConstant(last.op)

\* C13's case: a Simple-Packet block encoded little-endian starts 03 00 00 00.
C13_Witness ==
    /\ BlockWritten
    /\ last.op = "SPB"
    /\ endianness = "Little"
    /\ Slice(Emitted, 0, 4) = <<3, 0, 0, 0>>

\* C14: a raw block encodes as type | total_length1 | body | total_length2, all
\* as its caller gave them: 12 + body length bytes, no length computed, no
\* padding, the two lengths free to differ from each other and from the size; so
\* a raw block given a standard block's type, total length and body bytes
\* encodes to the bytes of that standard block in the same byte order.
C14_RawBlockVerbatim ==
    (last.op = "Raw" /\ last.res = "Ok") =>
        LET s == Emitted
            B == endianness
            c == last.call
        IN
        /\ Len(s) = 12 + Len(c[5])
        /\ ReadU32(s, 0, B) = c[2]
        /\ ReadU32(s, 4, B) = c[3]
        /\ Slice(s, 8, Len(c[5])) = c[5]
        /\ ReadU32(s, Len(s) - 4, B) = c[4]
        /\ \A std \in StandardBlocks :
               LET enc == StandardEncode(std, B) IN
               <<c[2], c[3], c[4], c[5]>> = RawOf(enc, B) => s = enc

\* C14's case: a raw block with type 6, lengths 16 and 20 and a 3-byte body is
\* written as 15 bytes.
C14_Witness ==
    /\ last.op = "Raw"
    /\ last.res = "Ok"
    /\ last.call = <<"new", 6, 16, 20, <<1, 2, 3>>>>
    /\ endianness = "Big"
    /\ Emitted = <<0, 0, 0, 6, 0, 0, 0, 16, 1, 2, 3, 0, 0, 0, 20>>

----------------------------------------------------------------------------
(* C15..C17: streams of blocks *)

\* Every write call made on the writer returned Ok.
AllWritesOk == \A i \in 1..Len(log) : log[i].res = "Ok"

\* The most significant byte of the u32 at an offset.
TopByte(s, off, B) == IF B = "Big" THEN s[off + 1] ELSE s[off + 4]

\* A reader's walk over a byte stream: the offsets of the blocks found from off on
\* by reading each block's leading total_length and advancing by it; -1 closes
\* the walk where the stream cannot be walked further (a length below 12 or
\* beyond the end of the stream, or more than fuel blocks).
RECURSIVE WalkFrom(_, _, _, _)
WalkFrom(s, off, B, fuel) ==
    IF off = Len(s) THEN <<>>
    ELSE IF fuel = 0 \/ off + 12 > Len(s) \/ TopByte(s, off + 4, B) > 127 THEN <<-1>>
    ELSE LET n == ReadU32(s, off + 4, B) IN
         IF n < 12 \/ off + n > Len(s) THEN <<-1>>
         ELSE <<off>> \o WalkFrom(s, off + n, B, fuel - 1)

\* The writer wrote one Section-Header, two Interface-Description and then one
\* or more Enhanced-Packet blocks, all successfully.
CaptureWritten ==
    /\ Len(log) >= 4
    /\ AllWritesOk
    /\ log[1].op = "SHB"
    /\ log[2].op = "IDB"
    /\ log[3].op = "IDB"
    /\ \A i \in 4..Len(log) : log[i].op = "EPB"

\* C15: after one Section-Header, two Interface-Description and N Enhanced-Packet
\* blocks were written into one sink, walking the stream from offset 0 by the
\* leading total_length of each block recovers exactly 1 + 2 + N blocks ending at
\* the end of the stream, with the type tags in written order, and each
\* Enhanced-Packet block carries the interface id, timestamp halves and
\* captured / original lengths it was built with.
C15_StreamRoundTrip ==
    CaptureWritten =>
        LET B == endianness
            walk == WalkFrom(sink, 0, B, Len(log) + 1)
        IN
        /\ Len(walk) = Len(log)
        /\ \A i \in 1..Len(log) : walk[i] = log[i].start
        /\ \A i \in 1..Len(log) :
               /\ ReadU32(sink, log[i].start, B) = TypeConstant(log[i].op)
               /\ log[i].op = "EPB" =>
                      \A k \in 2..6 :
                          ReadU32(sink, log[i].start + 4 * k, B) = log[i].call[k]

\* The bytes the i-th write call of the writer appended to the sink.
EntryBytes(i) ==
    SubSeq(sink, log[i].start + 1, IF i < Len(log) THEN log[i + 1].start ELSE Len(sink))

\* The full encoding of the value a write call was given, in the byte order B.
EncodeOf(w, B) ==
    CASE w.op = "SHB" -> SHBEncode(w.arg, B)
      [] w.op = "IDB" -> IDBEncode(w.arg, B)
      [] w.op = "ISB" -> ISBEncode(w.arg, B)
      [] w.op = "EPB" -> EPBEncode(w.arg, B)
      [] w.op = "SPB" -> SPBEncode(w.arg, B)
      [] w.op = "Raw" -> RawBlockEncode(w.arg, B)
      [] w.op = "Options" -> OptionsEncode(w.arg, B)

\* The total_length value of the block a write call was given.
TotalLengthOf(w) ==
    CASE w.op = "SHB" -> SHBLength(w.arg)
      [] w.op = "IDB" -> IDBLength(w.arg)
      [] w.op = "ISB" -> ISBLength(w.arg)
      [] w.op = "EPB" -> EPBLength(w.arg)
      [] w.op = "SPB" -> SPBLength(w.arg)
      [] w.op = "Raw" -> w.arg.total_length1

RECURSIVE TotalLengthSum(_)
TotalLengthSum(i) == IF i = 0 THEN 0 ELSE TotalLengthSum(i - 1) + TotalLengthOf(log[i])

\* After successful write calls the sink holds the encodings of the blocks in
\* call order and nothing else, and is as long as their total_length values sum to.
SinkIsTheBlocks ==
    AllWritesOk =>
        /\ \A i \in 1..Len(log) : EntryBytes(i) = EncodeOf(log[i], endianness).out
        /\ log # <<>> => log[1].start = 0
        /\ Len(sink) = TotalLengthSum(Len(log))

\* A step only appends to the sink: the bytes written earlier stay as they were.
SinkOnlyGrows == Len(sink') >= Len(sink) /\ SubSeq(sink', 1, Len(sink)) = sink

\* C16: after any sequence of successful write calls for blocks b1..bn the sink
\* holds exactly encode(b1) ... encode(bn) in call order, each write only appends
\* and changes no earlier byte, and the sink's length is the sum of the blocks'
\* total_length values.
C16_SinkIsConcatenation == [](SinkIsTheBlocks) /\ [][SinkOnlyGrows]_vars

\* The byte order a constructor call selects.
SelectedOrder(c) ==
    IF c[1] = "new" THEN c[2] ELSE IF c[1] = "new_le" THEN "Little" ELSE "Big"

\* s is the first bytes of t.
IsPrefix(s, t) == Len(s) <= Len(t) /\ s = SubSeq(t, 1, Len(s))

\* C17: the byte order of a writer is the one its constructor call selected
\* (new_le little-endian, new_be big-endian, new as given) after any sequence of
\* write calls, successful or failed, and every write call encoded the integer
\* fields of its block and of the block's options in that one byte order.
C17_ByteOrderFixed ==
    LET B == SelectedOrder(built) IN
    /\ endianness = B
    /\ \A i \in 1..Len(log) :
           LET bytes == EntryBytes(i) IN
           /\ IsPrefix(bytes, EncodeOf(log[i], B).out)
           /\ log[i].res = "Ok" => bytes = EncodeOf(log[i], B).out
           /\ (log[i].res = "Ok" /\ log[i].op = "EPB"
               /\ log[i].arg.options = <<test_comment_opt, flags_opt, eoo>>) =>
                  /\ ReadU32(bytes, 4, B) = 140
                  /\ ReadU16(bytes, 124, B) = 2
                  /\ ReadU16(bytes, 126, B) = 4
                  /\ ReadU32(bytes, 128, B) = 66051

\* C17's case: a writer built by new_le that wrote two blocks, had its third
\* write rejected by the sink and then wrote a block with options.
C17_Witness ==
    /\ built = <<"new_le">>
    /\ Len(log) = 4
    /\ log[1].res = "Ok"
    /\ log[2].res = "Ok"
    /\ log[3].res = "Err"
    /\ log[4].op = "EPB"
    /\ log[4].arg.options = <<test_comment_opt, flags_opt, eoo>>
    /\ endianness = "Little"

----------------------------------------------------------------------------
(* C18..C20: failures *)

\* C18: when the sink rejects a write during an encode call, the call and
\* PcapNgWriter::write return the failure, nothing more is written in that call,
\* and the bytes the sink accepted before are a proper prefix of the full
\* encoding and stay in the sink; a call the sink did not reject ends as the
\* encoder ended with all its bytes in the sink.
C18_SinkFailure ==
    last.op # "none" =>
        LET full == EncodeOf(last, endianness) IN
        /\ IsPrefix(Emitted, full.out)
        /\ Len(Emitted) < Len(full.out) => (last.res = "Err" /\ room = <<0>>)
        /\ last.res = "Err" => (Len(Emitted) < Len(full.out) /\ room = <<0>>)
        /\ Len(Emitted) = Len(full.out) => last.res = full.res
        /\ SubSeq(sink, 1, last.start) \in SinkPrefixes

\* C18's case: the sink rejected a write inside an Enhanced-Packet block with an
\* option, after the 22 bytes it had room for.
C18_Witness ==
    /\ last.op = "EPB"
    /\ last.res = "Err"
    /\ options = <<comment_opt>>
    /\ Len(last.arg.packet_data) = 3
    /\ Len(Emitted) = 22
    /\ Emitted = SubSeq(EPBEncode(last.arg, endianness).out, 1, 22)

\* The text of a text option fits the 16-bit length field.
Fits(o) == o.kind \in TextKinds => Len(TextOf(o)) <= 65535

\* C19: a value that does not fit its wire form (a text option of more than
\* 65535 bytes, a malformed MAC address string) is rejected when the option is
\* constructed, as an error value: the constructor does not crash, no option
\* holding such a value exists, and no encode call writes a byte for one or
\* crashes on one.
C19_ConstructionErrors ==
    /\ ~(last.op = "construct" /\ last.res = "Panic")
    /\ \A i \in 1..Len(options) : Fits(options[i])
    /\ (last.op \in {"Options", "IDB"} /\ \E i \in 1..Len(options) : ~Fits(options[i])) =>
           (Emitted = <<>> /\ last.res # "Panic")

\* C20: encoding an option list, or a block whose option list, holds an option
\* of a kind without an encoding rule never returns Ok and never leaves the
\* option out: a block's encode call fails before it writes a byte, so no block
\* is emitted whose total_length disagrees with its bytes for a skipped option.
C20_UnimplementedOptionsFail ==
    (/\ last.op \in {"Options", "SHB", "IDB", "ISB", "EPB"}
     /\ \E i \in 1..Len(options) : options[i].kind \in UnimplementedKinds) =>
        /\ last.res # "Ok"
        /\ last.op # "Options" => Emitted = <<>>

\* C20's case: an Enhanced-Packet block whose list holds a MAC address and then
\* an EpbDropCount option was encoded: the call aborted with nothing written.
C20_Witness ==
    /\ last.op = "EPB"
    /\ Len(options) = 2
    /\ options[1].kind = "IfMacAddr"
    /\ options[2].kind = "EpbDropCount"
    /\ last.res = "Panic"
    /\ Emitted = <<>>

----------------------------------------------------------------------------
(* C21..C23, C29: timestamps and resolutions *)

\* The last call was ts_from_nanoseconds with a resolution of the given variant.
TsCalled(variant) == last.op = "ts_from_nanoseconds" /\ last.call[1][1] = variant

\* a <= b for bit sequences of one length.
LeqBits(a, b) ==
    \E x \in {a}, y \in {b} :
        \/ x = y
        \/ \E i \in 1..Len(x) : x[i] < y[i] /\ \A j \in 1..(i - 1) : x[j] = y[j]

\* q is n / d with truncating division: q * d <= n <= q * d + (d - 1), the
\* products taken in 129 bits.
IsQuotient(q, n, d) ==
    /\ LeqBits(MulAdd(<<0>> \o q, d, 0), <<0>> \o n)
    /\ LeqBits(<<0>> \o n, MulAdd(<<0>> \o q, d, d - 1))

\* The 64-bit timestamp high << 32 | low of the pair the last call returned, and
\* that timestamp as a number of 128 bits.
Timestamp64 == last.arg[1] \o last.arg[2]

Timestamp == Zeros(64) \o Timestamp64

\* C21 as stated: for power-of-ten resolution p and any nanosecond count n the
\* pair (high, low) returned satisfies high << 32 | low = n / 10^(9 - p) with
\* truncating division: n / 1000 for p = 6, n itself for p = 9.
C21_PowerOfTenTimestamp ==
    (TsCalled("PowerOfTen") /\ last.call[1][2] <= 9) =>
        LET p == last.call[1][2]
            n == last.call[2]
        IN
        /\ last.res = "Ok"
        /\ IsQuotient(Timestamp, n, 10^(9 - p))
        /\ p = 6 => IsQuotient(Timestamp, n, 1000)
        /\ p = 9 => Timestamp = n

\* C21, amended: for power-of-ten resolution p <= 9 and any nanosecond count n,
\* high << 32 | low is the low 64 bits of n / 10^(9 - p) (truncating division):
\* it equals n / 10^(9 - p) whenever that is below 2^64 (n / 1000 for p = 6, n
\* for p = 9), and what is above bit 63 of the quotient is dropped otherwise.
C21_PowerOfTenTimestampAmended ==
    (TsCalled("PowerOfTen") /\ last.call[1][2] <= 9) =>
        LET p == last.call[1][2]
            n == last.call[2]
            t == DivBits(n, 10^(9 - p))
        IN
        /\ last.res = "Ok"
        /\ IsQuotient(t, n, 10^(9 - p))
        /\ Timestamp64 = SubSeq(t, 65, 128)
        /\ SubSeq(t, 1, 64) = Zeros(64) => Timestamp = t
        /\ (p = 9 /\ SubSeq(n, 1, 64) = Zeros(64)) => Timestamp = n

\* C21's case: microseconds of the 2023 time 1700000000123456789 ns are
\* 1700000000123456 = 395812 * 2^32 + 404759104.
C21_Witness ==
    /\ TsCalled("PowerOfTen")
    /\ last.call[1][2] = 6
    /\ last.call[2] = NANOS_2023
    /\ last.res = "Ok"
    /\ last.arg = <<Bits(395812, 32), Bits(404759104, 32)>>

\* t >> k for a number of 128 bits
Shr(t, k) == SubSeq(Zeros(256) \o t, 257 - k, 384 - k)

\* C22 as stated: for power-of-two resolution p and any nanosecond count n the
\* call returns a pair (high, low) with (high << 32 | low) / 2^p = n / 10^9
\* (integer division), and high << 32 | low is a multiple of 2^p.
C22_PowerOfTwoTimestamp ==
    TsCalled("PowerOfTwo") =>
        LET p == last.call[1][2]
            n == last.call[2]
        IN
        /\ last.res = "Ok"
        /\ Shr(Timestamp, p) = DivBits(n, 1000000000)
        /\ Shl(Shr(Timestamp, p), p) = Timestamp

\* The if_tsresol option as it stands in an option list: code 9, length 1, the
\* resolution byte and three bytes of padding.
IfTsResolBytes(tsresol, B) == write_u16(9, B) \o write_u16(1, B) \o <<tsresol>> \o <<0, 0, 0>>

\* C23: to_tsresol returns p with bit 7 cleared for PowerOfTen(p) and p with bit
\* 7 set for PowerOfTwo(p), for every p in 0..255 (6 and 134 for p = 6), and
\* the if_tsresol option built from the resolution carries that byte as its
\* one-byte value, in an option list and in a written Interface-Description
\* block.
C23_ResolutionCode ==
    /\ last.op = "to_tsresol" =>
           LET ts_res == last.call[1]
               p == ts_res[2]
               r == last.arg
               o == OptionIfTsResolNewOption(ts_res)
           IN
           /\ last.res = "Ok"
           /\ r \in 0..255
           /\ r % 128 = p % 128
           /\ r \div 128 = (IF ts_res[1] = "PowerOfTwo" THEN 1 ELSE 0)
           /\ ts_res = <<"PowerOfTen", 6>> => r = 6
           /\ ts_res = <<"PowerOfTwo", 6>> => r = 134
           /\ \A B \in {"Little", "Big"} :
                  /\ OptBytes(o, B) = <<r>>
                  /\ OptionsEncode(<<o>>, B) = Ok(IfTsResolBytes(r, B))
    /\ (last.op = "IDB" /\ Len(last.call) = 4) =>
           LET ts_res == last.call[4]
               r == (ts_res[2] % 128) + (IF ts_res[1] = "PowerOfTwo" THEN 128 ELSE 0)
           IN
           /\ last.res = "Ok"
           /\ Slice(sink, last.start + 16, 8) = IfTsResolBytes(r, endianness)

\* C23's case: an Interface-Description block written with the if_tsresol
\* option of PowerOfTwo(6); the option's value byte is 0b10000110.
C23_Witness ==
    /\ last.op = "IDB"
    /\ last.res = "Ok"
    /\ Len(last.call) = 4
    /\ last.call[4] = <<"PowerOfTwo", 6>>
    /\ to_tsresol(last.call[4]) = 134
    /\ sink[last.start + 21] = 134

\* The last call was from_timestamp, alone or followed by the block's write.
FromTimestampCalled == last.op \in {"EPB", "from_timestamp"} /\ last.call[1] = "from_timestamp"

\* C29: with a power-of-ten resolution p, ts_from_nanoseconds returns a pair
\* exactly when p <= 9; for every p in 10..255 the call panics, whatever the
\* nanoseconds and the build, and from_timestamp panics with it: no block is
\* built and nothing is written.
C29_ExponentUnderflow ==
    /\ TsCalled("PowerOfTen") =>
           /\ last.call[1][2] <= 9 => (last.res = "Ok" /\ Len(last.arg) = 2)
           /\ last.call[1][2] \in 10..255 => (last.res = "Panic" /\ last.arg = <<>>)
    /\ (FromTimestampCalled /\ last.call[3][1] = "PowerOfTen") =>
           /\ last.call[3][2] <= 9 => (last.op = "EPB" /\ last.res = "Ok")
           /\ last.call[3][2] \in 10..255 =>
                  /\ last.op = "from_timestamp"
                  /\ last.res = "Panic"
                  /\ Len(sink) = last.start
                  /\ \A i \in 1..Len(log) : log[i].op # "EPB"

\* C29's case: from_timestamp panicked for PowerOfTen(10) in the build without
\* overflow checks, after the Interface-Description block declared it.
C29_Witness ==
    /\ FromTimestampCalled
    /\ last.call[3] = <<"PowerOfTen", 10>>
    /\ last.call[8] = "wrapping"
    /\ last.res = "Panic"
    /\ Len(log) = 1
    /\ log[1].op = "IDB"

----------------------------------------------------------------------------
(* C24: one option code in two block contexts *)

\* C24 as stated: an Interface-Description block whose option list is the
\* interface-name option and a Section-Header block whose option list is the
\* hardware option are both encoded with success, each with 2 in the code
\* field of its option (offset 16 and offset 24) under its own block type.
C24_CodeTwoInBothContexts ==
    /\ (last.op = "IDB" /\ options = <<if_name_opt>> /\ last.res # "Err") =>
           /\ last.res = "Ok"
           /\ ReadU32(Emitted, 0, endianness) = TYPE_IDB
           /\ ReadU16(Emitted, 16, endianness) = 2
    /\ (last.op = "SHB" /\ options = <<hardware_opt>> /\ last.res # "Err") =>
           /\ last.res = "Ok"
           /\ ReadU32(Emitted, 0, endianness) = TYPE_SHB
           /\ ReadU16(Emitted, 24, endianness) = 2

\* The half of C24 the code keeps: the Interface-Description block with the
\* interface-name option.
C24_InterfaceNameHalf ==
    (last.op = "IDB" /\ options = <<if_name_opt>> /\ last.res # "Err") =>
        /\ last.res = "Ok"
        /\ ReadU32(Emitted, 0, endianness) = TYPE_IDB
        /\ ReadU16(Emitted, 16, endianness) = 2

----------------------------------------------------------------------------
(* C25: address options and the byte order *)

AddressKinds == {"IfIpv4Addr", "IfIpv6Addr", "IfMacAddr"}

\* The octets of an address option in the order the claim gives them.
AddressOctets(o) ==
    CASE o.kind = "IfIpv4Addr" -> o.ip \o o.netmask
      [] o.kind = "IfIpv6Addr" -> o.ip \o <<o.prefix_len>>
      [] o.kind = "IfMacAddr" -> o.mac_addr

AddressLength(o) ==
    CASE o.kind = "IfIpv4Addr" -> 8
      [] o.kind = "IfIpv6Addr" -> 17
      [] o.kind = "IfMacAddr" -> 6

\* C25: the value bytes of an IPv4-address option (4 address octets, 4 netmask
\* octets), an IPv6-address option (16 octets, the prefix length) and a
\* MAC-address option (6 octets) are the same octets in the same order in
\* both byte orders, in what was written and in what either encoding gives;
\* between the two encodings only the code and the length field are swapped.
C25_AddressBytes ==
    (last.op \in {"Options", "IDB"} /\ last.res = "Ok" /\ options # <<>>
        /\ options[1].kind \in AddressKinds) =>
        LET o == options[1]
            off == IF last.op = "IDB" THEN 16 ELSE 0
            v == AddressOctets(o)
            le == OptEncode(o, "Little").out
            be == OptEncode(o, "Big").out
        IN
        /\ Len(v) = AddressLength(o)
        /\ ReadU16(Emitted, off, endianness) = OptCode(o)
        /\ ReadU16(Emitted, off + 2, endianness) = Len(v)
        /\ Slice(Emitted, off + 4, Len(v)) = v
        /\ OptBytes(o, "Little") = v
        /\ OptBytes(o, "Big") = v
        /\ Len(le) = Len(be)
        /\ SubSeq(le, 5, Len(le)) = SubSeq(be, 5, Len(be))
        /\ SubSeq(le, 1, 2) = Reverse(SubSeq(be, 1, 2))
        /\ SubSeq(le, 3, 4) = Reverse(SubSeq(be, 3, 4))
        /\ le # be

\* C25's case: the IPv4 option of the source's comment, 192.168.1.1 with mask
\* 255.255.255.0, written alone by a little-endian writer.
C25_Witness ==
    /\ last.op = "Options"
    /\ last.res = "Ok"
    /\ endianness = "Little"
    /\ options = <<ipv4_opt>>
    /\ Emitted = <<4, 0, 8, 0, 192, 168, 1, 1, 255, 255, 255, 0>>

----------------------------------------------------------------------------
(* C27: raw options and their typed twins *)

\* The raw option declares the length its value has.
Consistent(o) == o.kind = "Raw" /\ o.length = Len(o.value)

\* The typed option with the code and the value of a raw option.
TypedTwin(r) ==
    CASE r.code = 1 -> OptionCommentNew(r.value)
      [] r.code = 2 -> OptionIfNameNew(r.value)

\* The list with every consistent raw option replaced by its typed twin.
Twinned(opts) ==
    [i \in 1..Len(opts) |-> IF Consistent(opts[i]) THEN TypedTwin(opts[i]) ELSE opts[i]]

\* C27: a raw option (c, L, v) with L = Len(v) encodes to the bytes of the typed
\* option with code c and value v (c | L | v | zero padding to 4 bytes) in both
\* byte orders and counts the same in Options::length(); a written list with
\* raw options is the bytes of the list with their typed twins; for value
\* lengths 9..12 the option is 16 bytes with 3, 2, 1, 0 bytes of padding.
C27_RawEqualsTyped ==
    (OptionsWritten /\ \E i \in 1..Len(options) : Consistent(options[i])) =>
        /\ \A i \in 1..Len(options) :
               Consistent(options[i]) =>
                   LET r == options[i]
                       n == Len(r.value)
                   IN
                   /\ \A B \in {"Little", "Big"} :
                          /\ OptEncode(r, B) = OptEncode(TypedTwin(r), B)
                          /\ OptEncode(r, B) =
                                 Ok(write_u16(r.code, B) \o write_u16(n, B) \o r.value
                                    \o Zeros((4 - (n % 4)) % 4))
                   /\ OptionsLength(<<r>>) = OptionsLength(<<TypedTwin(r)>>)
                   /\ n \in 9..12 =>
                          /\ Len(OptEncode(r, endianness).out) = 16
                          /\ Len(OptPadding(r)) = 12 - n
        /\ Emitted = OptionsEncode(Twinned(options), endianness).out
        /\ OptionsLength(options) = OptionsLength(Twinned(options))
        /\ OptionsLength(options) = Len(Emitted)

\* C27's case: the raw option (1, 13, "Hello World!!") written alone by a
\* big-endian writer gives the bytes of the source's opt_comment test.
C27_Witness ==
    /\ OptionsWritten
    /\ endianness = "Big"
    /\ options = <<raw_comment_opt>>
    /\ Emitted = <<0, 1, 0, 13, 72, 101, 108, 108, 111, 32, 87, 111, 114, 108, 100, 33, 33,
                   0, 0, 0>>

----------------------------------------------------------------------------
(* C28: add_option and clear *)

\* The step is Options::clear: the list is empty and length() is 0.
Cleared ==
    /\ options' = <<>>
    /\ OptionsLength(options') = 0

\* The step is Options::add_option: the earlier entries are as they were, the
\* new option is last, length() returns the sum of (4 + declared length +
\* padding) and has grown by the encoded size of the new option.
Added ==
    /\ Len(options') = Len(options) + 1
    /\ SubSeq(options', 1, Len(options)) = options
    /\ ~OptionsLengthPanics(options')
    /\ OptionsLength(options') = DeclaredSum(options', 1)
    /\ LET o == options'[Len(options')] IN
       \A B \in {"Little", "Big"} :
           /\ OptEncode(o, B).res = "Ok"
           /\ OptionsLength(options') = OptionsLength(options) + Len(OptEncode(o, B).out)

\* The bytes of a block without options: the envelope and the fixed fields,
\* and for the packet blocks the payload with its padding.
WithoutOptions ==
    CASE last.op = "SHB" -> Len(Emitted) = 28
      [] last.op = "IDB" -> Len(Emitted) = 20
      [] last.op = "ISB" -> Len(Emitted) = 24
      [] last.op = "EPB" -> Len(Emitted) = 32 + Len(last.arg.packet_data)
                                             + Len(EPBDataPadding(last.arg))
      [] last.op = "SPB" -> TRUE

\* C28 as stated: every step that changes an option list is an add_option that
\* appends (length() grows by the encoded size of the option added, and is the
\* sum of 4 + declared length + padding) or a clear that empties it (length()
\* is 0), and a block encoded with the empty list has no option bytes.
C28_AddAndClear ==
    /\ [][options' # options => (Cleared \/ Added)]_vars
    /\ []((BlockWritten /\ options = <<>>) => WithoutOptions)

\* C28 for the options that have an encoding rule and, if raw, declare the
\* length of their value.
C28_AddAndClearWellFormed ==
    [][(options' # options
        /\ \A i \in 1..Len(options') :
               /\ options'[i].kind \in Implemented
               /\ options'[i].kind = "Raw" => Consistent(options'[i]))
       => (Cleared \/ Added)]_vars

----------------------------------------------------------------------------
(* C30: the epb_flags word *)

\* Bits lo .. lo + w - 1 of a 32-bit word (bit 0 the least significant), as a
\* number.
Field(word, lo, w) == Nat32(SubSeq(word, 33 - (lo + w), 32 - lo))

\* The 32-bit word four bytes hold in byte order B.
WordOfBytes(bytes, B) ==
    LET be == IF B = "Big" THEN bytes ELSE Reverse(bytes)
    IN  Bits(be[1], 8) \o Bits(be[2], 8) \o Bits(be[3], 8) \o Bits(be[4], 8)

\* C30: the flags word OptionEpbFlags::new builds holds the direction in bits
\* 0-1, the reception type in bits 2-4, the FCS length in bits 5-8 (0 when
\* absent) and the error flags in bits 16-31, each masked to its width, with
\* bits 9-15 zero; the option is four bytes long and its bytes hold that word
\* in the chosen byte order, so each field reads back from the bytes.
C30_FlagsFieldsDisjoint ==
    last.op = "OptionEpbFlags::new" =>
        /\ last.res = "Ok"
        /\ Len(last.arg.flags) = 32
        /\ Field(last.arg.flags, 0, 2) = PacketDirectionValue(last.call[1]) % 4
        /\ Field(last.arg.flags, 2, 3) = ReceptionTypeValue(last.call[2]) % 8
        /\ Field(last.arg.flags, 5, 4) =
               (IF last.call[3] = <<>> THEN 0 ELSE last.call[3][1] % 16)
        /\ Field(last.arg.flags, 9, 7) = 0
        /\ Field(last.arg.flags, 16, 16) = last.call[4] % 65536
        /\ OptLength(last.arg) = 4
        /\ \A B \in {"Little", "Big"} :
               /\ Len(OptBytes(last.arg, B)) = 4
               /\ WordOfBytes(OptBytes(last.arg, B), B) = last.arg.flags

\* C30's case: a word was built from an FCS length wider than four bits (255)
\* and error flags with every bit set, for an outbound broadcast packet: the
\* word is 0xffff01ee.
C30_Witness ==
    /\ last.op = "OptionEpbFlags::new"
    /\ last.call = <<"Outbound", "Broadcast", <<255>>, 65535>>
    /\ OptBytes(last.arg, "Big") = <<255, 255, 1, 238>>

----------------------------------------------------------------------------
(* C26: a block whose option list cannot be encoded *)

\* The list holds an option whose length() aborts: a kind without an encoding
\* rule, or a text of more than 65535 bytes.
Unencodable(opts) ==
    \E i \in 1..Len(opts) :
        \/ opts[i].kind \in UnimplementedKinds
        \/ opts[i].kind \in TextKinds /\ Len(TextOf(opts[i])) > 65535

\* C26: when a block with an option list is encoded and the list holds an
\* option without an encoding rule or a text longer than 65535 bytes, the call
\* aborts and the sink after the call is the sink before it, whatever options
\* come earlier in the list.
C26_FailureBeforeFirstWrite ==
    [][(last.op = "none" /\ last'.op \in BlockOps /\ Unencodable(options)) =>
           (last'.res = "Panic" /\ sink' = sink)]_vars

\* C26's case: an Enhanced-Packet block whose list holds a MAC address option
\* and then a comment of 65536 bytes was encoded into a sink that held bytes:
\* the call aborted and the sink holds those bytes and no more.
C26_Witness ==
    /\ last.op = "EPB"
    /\ last.res = "Panic"
    /\ Len(options) = 2
    /\ options[1].kind = "IfMacAddr"
    /\ options[2].kind = "OptComment"
    /\ Len(options[2].comment) = 65536
    /\ sink # <<>>
    /\ Len(sink) = last.start

====
